---- MODULE Spec2Model ----
(***************************************************************************)
(* Snapshot engine of komodo: backup (export a database to gzip files in a *)
(* dated folder), restore (load such a folder into a database) and copy    *)
(* (stream one database into another), src/lib/database/src/utils.         *)
(*                                                                         *)
(* Names (collection names, file names, folder names) are byte strings,    *)
(* modelled as sequences of byte codes, so that formatting, suffix         *)
(* stripping and the ordering of paths are computed as the code computes   *)
(* them.  A path is the sequence of its components.                        *)
(***************************************************************************)
EXTENDS Integers, Sequences, FiniteSets, TLC

\* ------------------------------------------------------------------ bounds

\* The batch threshold of restore and copy (20_000 in the source), scaled down.
BatchSize == 2

\* Top-level calls (backup, restore, copy) made one after the other in the
\* runs of SpecSeq.
MaxCalls == 2

\* Injected I/O faults (file, cursor, driver, task panic) in the runs of Spec.
MaxFaults == 1

\* How many calls SpecRuns makes one after the other.
MaxRuns == 3

\* Invocations of BackupCoreDatabase and ClearRepoCache in the runs of
\* SpecLock.
MaxRequests == 3

\* Folders in the repo cache directory that ClearRepoCache clears.
MaxRepoDirs == 1

\* Lines of the collection file restored in the runs of SpecLines.
MaxLines == 3

\* Invocations of BackupCoreDatabase and ClearRepoCache in the runs of
\* SpecLockFair.
MaxFairRequests == 2

\* Bytes of the collection name backed up and restored in the runs of
\* SpecNames.
MaxNameLen == 3

\* ------------------------------------------------------------------- names

\* "Stats"
StatsName == <<83, 116, 97, 116, 115>>

\* ".gz"
GzSuffix == <<46, 103, 122>>

\* The root component "/" of an absolute path, and the component ".".
RootDirC == <<47>>

CurDirC == <<46>>

\* Collection names "A", "B", "C", "E", "X".
CollA == <<65>>

CollE == <<69>>

CollB == <<66>>

CollC == <<67>>

CollX == <<88>>

\* The backups root folder "/b" and a folder elsewhere, "/o".
BackupFolder == <<RootDirC, <<98>>>>

OtherFolder == <<RootDirC, <<111>>>>

Digit(d) == 48 + d

Pad2(n) == <<Digit((n \div 10) % 10), Digit(n % 10)>>

Pad4(n) == <<Digit((n \div 1000) % 10), Digit((n \div 100) % 10)>> \o Pad2(n)

\* Not the code, a variant to compare with: the day comes first (%d-%m-%Y_%H-%M-%S).
FormatTimeDayFirst(t) ==
  Pad2(t[3]) \o <<45>> \o Pad2(t[2]) \o <<45>> \o Pad4(t[1]) \o <<95>>
    \o Pad2(t[4]) \o <<45>> \o Pad2(t[5]) \o <<45>> \o Pad2(t[6])

\* Local::now().format("%Y-%m-%d_%H-%M-%S") of an instant <<Y, M, D, h, m, s>>.
FormatTime(t) ==
  Pad4(t[1]) \o <<45>> \o Pad2(t[2]) \o <<45>> \o Pad2(t[3]) \o <<95>>
    \o Pad2(t[4]) \o <<45>> \o Pad2(t[5]) \o <<45>> \o Pad2(t[6])

\* The instants the clock can show, in time order.
Times ==
  << <<2024, 12, 31, 23, 59, 59>>,
     <<2025, 1, 1, 0, 0, 0>>,
     <<2025, 2, 1, 0, 0, 0>> >>

\* format!("{collection}.gz")
GzFileName(collection) == collection \o GzSuffix

\* Not the code, a variant to compare with: every name counts as a collection file.
HasAnySuffix(name) == TRUE

\* file_name.strip_suffix(".gz"): the name without the suffix, or none.
HasGzSuffix(name) ==
  /\ Len(name) >= Len(GzSuffix)
  /\ SubSeq(name, Len(name) - Len(GzSuffix) + 1, Len(name)) = GzSuffix

\* Not the code, a variant to compare with: the name is cut at its first dot.
StripFromDot(name) ==
  LET dots == {i \in 1..Len(name) : name[i] = 46}
  IN  IF dots = {} THEN name
      ELSE SubSeq(name, 1, (CHOOSE i \in dots : \A j \in dots : i <= j) - 1)

StripGzSuffix(name) == SubSeq(name, 1, Len(name) - Len(GzSuffix))

\* ------------------------------------------------------------------- paths

\* Byte-wise lexicographic order of two names (OsStr comparison).
RECURSIVE BytesLess(_, _)
BytesLess(a, b) ==
  IF b = <<>> THEN FALSE
  ELSE IF a = <<>> THEN TRUE
  ELSE IF Head(a) # Head(b) THEN Head(a) < Head(b)
  ELSE BytesLess(Tail(a), Tail(b))

\* path > max of two paths: PathBuf compares component by component.
RECURSIVE PathGreater(_, _)
PathGreater(p, q) ==
  IF p = <<>> THEN FALSE
  ELSE IF q = <<>> THEN TRUE
  ELSE IF Head(p) # Head(q) THEN BytesLess(Head(q), Head(p))
  ELSE PathGreater(Tail(p), Tail(q))

IsAbsolute(p) == p # <<>> /\ Head(p) = RootDirC

\* Path::join: an absolute argument replaces the base.
PathJoin(base, p) == IF IsAbsolute(p) THEN p ELSE base \o p

\* path.components().collect(): "." is dropped except as the first component.
Components(p) ==
  IF p = <<>> THEN <<>>
  ELSE <<Head(p)>> \o SelectSeq(Tail(p), LAMBDA c : c # CurDirC)

\* path.file_name(): the last component.
FileName(p) == p[Len(p)]

Parent(p) == SubSeq(p, 1, Len(p) - 1)

\* --------------------------------------------------------------- documents

\* A BSON document: its _id, the BSON type of its value field and the value.
\* ty = "invalid" is a raw document that does not decode (RawDocumentBuf is
\* not validated when the cursor delivers it).
Doc(id, ty, num) == [id |-> id, ty |-> ty, num |-> num]

\* A line of a collection file: a JSON document, an empty line, or text that
\* is no JSON document.
JsonLine(id, num) == [kind |-> "json", id |-> id, num |-> num]

BlankLine == [kind |-> "blank", id |-> 0, num |-> 0]

GarbageLine == [kind |-> "garbage", id |-> 0, num |-> 0]

\* serde_json::to_string(&doc): fails on a raw document that does not decode;
\* an integer is written as a plain JSON number, its BSON width is not.
ToJsonOk(doc) == doc.ty # "invalid"

ToJson(doc) == JsonLine(doc.id, doc.num)

\* serde_json::from_str::<Document>(&line): a non-negative JSON integer that
\* fits 32 bits becomes Int32, any other integer Int64.
FromJsonOk(line) == line.kind = "json"

FromJson(line) ==
  Doc(line.id,
      IF line.num >= 0 /\ line.num <= 2147483647 THEN "int32" ELSE "int64",
      line.num)

\* ---------------------------------------------------------------- database

\* A database: a function from the names of its collections to their
\* documents.  _id is unique within a collection.
EmptyDb == [c \in {} |-> {}]

DocsOf(db, c) == IF c \in DOMAIN db THEN db[c] ELSE {}

\* db.list_collection_names(), in a fixed order.
RECURSIVE NamesInOrder(_)
NamesInOrder(S) ==
  IF S = {} THEN <<>>
  ELSE LET m == CHOOSE x \in S : \A y \in S : ~BytesLess(y, x)
       IN  <<m>> \o NamesInOrder(S \ {m})

ListCollectionNames(db) == NamesInOrder(DOMAIN db)

\* The documents of a set by ascending _id.
RECURSIVE ById(_)
ById(S) ==
  IF S = {} THEN <<>>
  ELSE LET m == CHOOSE x \in S : \A y \in S : x.id <= y.id
       IN  <<m>> \o ById(S \ {m})

Reverse(s) == [i \in 1..Len(s) |-> s[Len(s) + 1 - i]]

\* source.find(Document::new()): every document, in an order the server
\* chooses (two orders are modelled: ascending and descending _id).
CursorOrders(S) == {ById(S), Reverse(ById(S))}

\* Not the code, a variant to compare with: the buffer is flushed only once it holds more than BatchSize.
BufferFullLate(buffer) == Len(buffer) > BatchSize

\* buffer.len() >= 20_000
BufferFull(buffer) == Len(buffer) >= BatchSize

\* Not the code, a variant to compare with: the buffer is kept when the insert failed, to be sent again.
KeptOnError(buffer, ok) == IF ok THEN <<>> ELSE buffer

\* Not the code, a variant to compare with: the buffer is never cleared.
NotCleared(buffer, ok) == buffer

\* buffer.clear() after a mid-stream insert_many, whatever its result (ok).
Cleared(buffer, ok) == <<>>

\* Not the code, a variant to compare with: a document whose _id is in the collection replaces the one there.
RECURSIVE AcceptedUpsert(_, _)
AcceptedUpsert(existing, batch) ==
  IF batch = <<>> THEN existing
  ELSE LET d == Head(batch)
       IN  AcceptedUpsert({e \in existing : e.id # d.id} \cup {d}, Tail(batch))

\* Not the code, a variant to compare with: an ordered insert, which stops at the first document rejected.
RECURSIVE AcceptedOrdered(_, _)
AcceptedOrdered(existing, batch) ==
  IF batch = <<>> THEN existing
  ELSE LET d == Head(batch)
       IN  IF \E e \in existing : e.id = d.id
           THEN existing
           ELSE AcceptedOrdered(existing \cup {d}, Tail(batch))

\* The documents of a batch the target accepts: a document whose _id is
\* already in the collection (or earlier in the batch) is rejected, and every
\* other document is still inserted (ordered(false)).
RECURSIVE Accepted(_, _)
Accepted(existing, batch) ==
  IF batch = <<>> THEN existing
  ELSE LET d == Head(batch)
       IN  Accepted(IF \E e \in existing : e.id = d.id
                    THEN existing ELSE existing \cup {d},
                    Tail(batch))

\* Not the code, a variant to compare with: the batch replaces the content of the collection.
InsertManyReplace(existing, batch, driverFault) ==
  IF driverFault THEN [docs |-> existing, ok |-> FALSE]
  ELSE [docs |-> {batch[i] : i \in 1..Len(batch)}, ok |-> TRUE]

\* target.insert_many(&buffer).with_options(ordered(false)): the collection
\* afterwards, and whether the call returned Ok.  A driver fault inserts
\* nothing and returns Err.
InsertMany(existing, batch, driverFault) ==
  IF driverFault THEN [docs |-> existing, ok |-> FALSE]
  ELSE [docs |-> Accepted(existing, batch),
        ok   |-> Cardinality(Accepted(existing, batch))
                   = Cardinality(existing) + Len(batch)]

WithCollection(db, c, docs) ==
  [x \in DOMAIN db \cup {c} |-> IF x = c THEN docs ELSE db[x]]

\* The databases a call can be handed as its source.
DbOne ==
  (CollA :> {Doc(1, "int32", 5), Doc(2, "int64", 7), Doc(3, "int32", -1)})
    @@ (StatsName :> {Doc(10, "int32", 1)})

DbTwo ==
  (CollB :> {})
    @@ (StatsName :> {Doc(11, "int64", 2), Doc(12, "invalid", 0)})

DbX ==
  CollX :> {Doc(21, "int32", 1), Doc(22, "int32", 2), Doc(23, "int64", 3),
            Doc(24, "int32", 4), Doc(25, "int32", -5)}

SourceDbs == {DbOne, DbTwo, DbX}

\* The target database before the first call.
TargetOld ==
  (CollX :> {Doc(31, "int32", 1), Doc(32, "int32", 2)})
    @@ (CollA :> {Doc(1, "int32", 99)})

\* -------------------------------------------------------------- file system

\* A file: its lines and the state of its gzip stream: "open" (created, the
\* trailer not written), "closed" (finalized) or "corrupt" (no gzip data).
File(lines, gz) == [lines |-> lines, gz |-> gz]

NoFiles == [p \in {} |-> File(<<>>, "open")]

WithFile(fs, p, f) == [x \in DOMAIN fs \cup {p} |-> IF x = p THEN f ELSE fs[x]]

WithoutFile(fs, p) == [x \in DOMAIN fs \ {p} |-> fs[x]]

\* The entries directly inside directory d.
Entries(ds, fs, d) ==
  {p \in ds \cup DOMAIN fs : Len(p) = Len(d) + 1 /\ SubSeq(p, 1, Len(d)) = d}

\* The order in which read_dir delivers the entries in the runs of Spec
\* (SpecLatest takes every order).
RECURSIVE PathsInOrder(_)
PathsInOrder(S) ==
  IF S = {} THEN <<>>
  ELSE LET m == CHOOSE x \in S : \A y \in S : ~PathGreater(x, y)
       IN  <<m>> \o PathsInOrder(S \ {m})

\* The disk before the first call holds an older snapshot: Stats.gz and a
\* plain file in the root, a dated folder with A.gz (with an empty and an
\* unparseable line), a B.gz that is no gzip data, C.gz and a file without
\* the suffix; and a folder elsewhere, without subfolder, that holds X.gz
\* and an E.gz without lines.
OldDated == BackupFolder \o <<FormatTime(Times[1])>>

OldDirs == {BackupFolder, OldDated, OtherFolder}

OldFiles ==
  (BackupFolder \o <<GzFileName(StatsName)>>
      :> File(<<JsonLine(10, 0)>>, "closed"))
  @@ (BackupFolder \o <<<<110>>>> :> File(<<>>, "corrupt"))
  @@ (OldDated \o <<GzFileName(CollA)>>
      :> File(<<JsonLine(1, 5), BlankLine, JsonLine(2, -7), GarbageLine,
                JsonLine(3, 9)>>, "closed"))
  @@ (OldDated \o <<GzFileName(CollB)>> :> File(<<>>, "corrupt"))
  @@ (OldDated \o <<GzFileName(CollC)>> :> File(<<JsonLine(4, 4)>>, "closed"))
  @@ (OldDated \o <<<<114>>>> :> File(<<GarbageLine>>, "corrupt"))
  @@ (OtherFolder \o <<GzFileName(CollX)>>
      :> File(<<JsonLine(21, 1), JsonLine(22, 2), JsonLine(23, 3),
                JsonLine(24, 4)>>, "closed"))
  @@ (OtherFolder \o <<GzFileName(CollE)>> :> File(<<>>, "closed"))
  @@ (OtherFolder \o <<GzFileName(StatsName)>>
      :> File(<<JsonLine(13, 3)>>, "closed"))

\* ------------------------------------------------------------------- state

VARIABLES
  dirs,      \* the directories that exist (paths)
  files,     \* the files that exist: path -> File
  source,    \* the database handed to backup and copy as their source
  target,    \* the database restore and copy insert into
  clock,     \* index in Times of the instant the clock shows
  op,        \* the call in progress: kind, phase, result, folder
  workers,   \* the spawned tasks of the call (the handles), one record each
  joined,    \* how many task outcomes the driver has collected
  faultsLeft, \* faults that can still be injected
  callsLeft, \* calls that can still be started
  prev,      \* the call before this one: kind, result, folder, faulted
  target0,   \* the target database when the call in progress started
  listing,   \* latest_restore_folder: the entries read_dir delivers
  lpos,      \* latest_restore_folder: entries consumed
  lmax,      \* latest_restore_folder: max
  lres,      \* latest_restore_folder: whether it returned, and what
  requests,  \* the invocations of BackupCoreDatabase and ClearRepoCache
  backup_database_lock,   \* BACKUP_DATABASE_LOCK: 0, or the invocation holding it
  clear_repo_cache_lock,  \* CLEAR_REPO_CACHE_LOCK: 0, or the invocation holding it
  repo_directory,         \* the folders in core_config().repo_directory
  other      \* a second call of backup under way beside this one: its op,
             \* workers and joined

vars ==
  <<dirs, files, source, target, clock, op, workers, joined, faultsLeft, callsLeft,
    prev, target0, listing, lpos, lmax, lres, requests, backup_database_lock,
    clear_repo_cache_lock, repo_directory, other>>

latestVars == <<listing, lpos, lmax, lres>>

lockVars ==
  <<requests, backup_database_lock, clear_repo_cache_lock, repo_directory>>

\* The restore_folder argument of restore: None, or Some(path).
None == [some |-> FALSE, path |-> <<>>]

Some(path) == [some |-> TRUE, path |-> path]

\* The call: its kind, the phase of its driver, its result, the dated folder
\* it writes or reads, and the arguments of restore.
NoOp ==
  [kind |-> "none", phase |-> "idle", result |-> "none", folder |-> <<>>,
   root |-> <<>>, arg |-> None]

\* No second call of backup is under way.
NoRun == [op |-> NoOp, workers |-> <<>>, joined |-> 0]

NoPrev ==
  [kind |-> "none", result |-> "none", folder |-> <<>>, faulted |-> FALSE,
   paths |-> {}]

\* Whether one more fault can be injected: the outcomes of a fallible step.
Outcomes == IF faultsLeft > 0 THEN {FALSE, TRUE} ELSE {FALSE}

Hit(fail) == IF fail THEN faultsLeft - 1 ELSE faultsLeft

\* A spawned task.  pc is its position; count, buffer and cursor are the
\* locals of its async block; gz is how the stream it reads ends; calls are
\* the sizes of the bulk inserts it issued and faulted records whether a
\* failure (injected or not) hit it.  handle is the file of its writer:
\* "none" before File::create and after the writer is dropped, "own" while
\* the file it created is the one at its path, "lost" once that file was
\* unlinked; sent is the offset of the writer, in lines.
Worker(coll, path, pc) ==
  [coll |-> coll, path |-> path, pc |-> pc, count |-> 0, buffer |-> <<>>,
   cursor |-> <<>>, gz |-> "closed", calls |-> <<>>, faulted |-> FALSE,
   handle |-> "none", sent |-> 0]

Terminal == {"done", "failed", "panicked"}

\* A task that ended: its cursor, its buffer and its writer are dropped
\* with it.
Ended(w, pc, faulted) ==
  [w EXCEPT !.pc = pc, !.cursor = <<>>, !.buffer = <<>>,
            !.faulted = w.faulted \/ faulted, !.handle = "none"]

Idle == op.phase \in {"idle", "returned"} /\ callsLeft > 0

\* Not the code, a variant to compare with: a task that fails takes the tasks still running down with it.
FailAbortsAll(i) ==
  [j \in 1..Len(workers) |->
     IF j = i THEN Ended(workers[j], "failed", TRUE)
     ELSE IF workers[j].pc \in Terminal THEN workers[j]
     ELSE Ended(workers[j], "failed", FALSE)]

\* The tasks after the async block of task i ended with Err: the error is
\* logged inside the task (match res { .. Err(e) => error!(..) }) and the
\* task ends; no other task is touched.
Fail(i) == [workers EXCEPT ![i] = Ended(workers[i], "failed", TRUE)]

\* What a call leaves behind for the next one: its kind, result and folder,
\* whether a failure hit one of its tasks, and the file each task wrote.
Summary ==
  [kind |-> op.kind, result |-> op.result, folder |-> op.folder,
   faulted |-> \E i \in 1..Len(workers) : workers[i].faulted,
   paths |-> {<<workers[i].coll, workers[i].path>> : i \in 1..Len(workers)}]

Running(i) ==
  /\ op.phase = "spawned"
  /\ i \in 1..Len(workers)

\* ------------------------------------------------------------------ backup

\* Not the code, a variant to compare with: Stats is written into the dated folder like every collection.
BackupFilePathDated(backup_folder, now_backup_folder, collection) ==
  now_backup_folder \o <<GzFileName(collection)>>

\* Not the code, a variant to compare with: every file is written into the backups folder itself.
BackupFilePathFlat(backup_folder, now_backup_folder, collection) ==
  backup_folder \o <<GzFileName(collection)>>

\* lines 37-41: the file a collection is written to.
BackupFilePath(backup_folder, now_backup_folder, collection) ==
  IF collection = StatsName
  THEN backup_folder \o <<GzFileName(StatsName)>>
  ELSE now_backup_folder \o <<GzFileName(collection)>>

\* Not the code, a variant to compare with: the error of create_dir_all is dropped and
\* backup goes on.
BackupStartAnyway(db, ti, step) ==
  LET now_backup_folder == BackupFolder \o <<FormatTime(Times[ti])>>
      names == ListCollectionNames(db)
  IN  /\ Idle
      /\ prev' = Summary
      /\ callsLeft' = callsLeft - 1
      /\ clock' = ti
      /\ source' = db
      /\ target0' = target
      /\ joined' = 0
      /\ faultsLeft' = Hit(step # "ok")
      /\ dirs' = IF step = "mkdir" THEN dirs
                 ELSE dirs \cup {BackupFolder, now_backup_folder}
      /\ IF step # "list"
         THEN /\ op' = [kind |-> "backup", phase |-> "spawned",
                        result |-> "none", folder |-> now_backup_folder,
                        root |-> BackupFolder, arg |-> None]
              /\ workers' = [i \in 1..Len(names) |->
                               Worker(names[i],
                                      BackupFilePath(BackupFolder,
                                                     now_backup_folder, names[i]),
                                      "remove")]
         ELSE /\ op' = [kind |-> "backup", phase |-> "returned",
                        result |-> "err", folder |-> now_backup_folder,
                        root |-> BackupFolder, arg |-> None]
              /\ workers' = <<>>
      /\ UNCHANGED <<files, target, latestVars, lockVars, other>>

\* Not the code, a variant to compare with: backup does not start while another backup is under way.
BackupStartLocked(db, ti, step) ==
  LET now_backup_folder == BackupFolder \o <<FormatTime(Times[ti])>>
      names == ListCollectionNames(db)
      file_path(c) == BackupFilePath(BackupFolder, now_backup_folder, c)
  IN  /\ Idle
      /\ other.op.phase \notin {"spawned", "joined"}
      /\ prev' = Summary
      /\ callsLeft' = callsLeft - 1
      /\ clock' = ti
      /\ source' = db
      /\ target0' = target
      /\ joined' = 0
      /\ faultsLeft' = Hit(step # "ok")
      /\ dirs' = IF step = "mkdir" THEN dirs
                 ELSE dirs \cup {BackupFolder, now_backup_folder}
      /\ IF step = "ok"
         THEN /\ op' = [kind |-> "backup", phase |-> "spawned",
                        result |-> "none", folder |-> now_backup_folder,
                        root |-> BackupFolder, arg |-> None]
              /\ workers' = [i \in 1..Len(names) |->
                               Worker(names[i], file_path(names[i]), "remove")]
         ELSE /\ op' = [kind |-> "backup", phase |-> "returned",
                        result |-> "err", folder |-> now_backup_folder,
                        root |-> BackupFolder, arg |-> None]
              /\ workers' = <<>>
      /\ UNCHANGED <<files, target, latestVars, lockVars, other>>

\* backup(), lines 21-41 and 116: the dated folder is created, the
\* collections are listed and one task is spawned per collection.
\* step is "mkdir" or "list" when that call fails.
BackupStart(db, ti, step) ==
  LET now_backup_folder == BackupFolder \o <<FormatTime(Times[ti])>>
      names == ListCollectionNames(db)
      file_path(c) == BackupFilePath(BackupFolder, now_backup_folder, c)
  IN  /\ Idle
      /\ prev' = Summary
      /\ callsLeft' = callsLeft - 1
      /\ clock' = ti
      /\ source' = db
      /\ target0' = target
      /\ joined' = 0
      /\ faultsLeft' = Hit(step # "ok")
      /\ dirs' = IF step = "mkdir" THEN dirs
                 ELSE dirs \cup {BackupFolder, now_backup_folder}
      /\ IF step = "ok"
         THEN /\ op' = [kind |-> "backup", phase |-> "spawned",
                        result |-> "none", folder |-> now_backup_folder,
                        root |-> BackupFolder, arg |-> None]
              /\ workers' = [i \in 1..Len(names) |->
                               Worker(names[i], file_path(names[i]), "remove")]
         ELSE /\ op' = [kind |-> "backup", phase |-> "returned",
                        result |-> "err", folder |-> now_backup_folder,
                        root |-> BackupFolder, arg |-> None]
              /\ workers' = <<>>
      /\ UNCHANGED <<files, target, latestVars, lockVars, other>>

BackupCall ==
  \E db \in SourceDbs, ti \in {clock, clock + 1} \cap (1..Len(Times)) :
    \E step \in (IF faultsLeft > 0 THEN {"ok", "mkdir", "list"} ELSE {"ok"}) :
      BackupStart(db, ti, step)

\* Not the code, a variant to compare with: the file is left in place until File::create replaces it.
BackupRemoveKeeps(i) ==
  /\ Running(i)
  /\ op.kind = "backup"
  /\ workers[i].pc = "remove"
  /\ files' = files
  /\ workers' = [workers EXCEPT ![i].pc = "create"]
  /\ UNCHANGED <<dirs, source, target, clock, op, joined, faultsLeft, callsLeft,
                 prev, target0, latestVars, lockVars, other>>

\* The tasks ws once the file at path is unlinked: a writer that has it
\* open keeps the unlinked file, which no path leads to any more.
Unlinked(ws, path) ==
  [j \in 1..Len(ws) |->
     IF ws[j].path = path /\ ws[j].handle = "own"
     THEN [ws[j] EXCEPT !.handle = "lost"] ELSE ws[j]]

\* line 45: let _ = remove_file(&file_path): the result is ignored.
BackupRemove(i) ==
  /\ Running(i)
  /\ op.kind = "backup"
  /\ workers[i].pc = "remove"
  /\ files' = WithoutFile(files, workers[i].path)
  /\ workers' = [workers EXCEPT ![i].pc = "create"]
  /\ other' = [other EXCEPT !.workers = Unlinked(other.workers, workers[i].path)]
  /\ UNCHANGED <<dirs, source, target, clock, op, joined, faultsLeft, callsLeft,
                 prev, target0, latestVars, lockVars>>

\* lines 46-56: File::create; an error ends the task.
BackupCreate(i) ==
  /\ Running(i)
  /\ op.kind = "backup"
  /\ workers[i].pc = "create"
  /\ \E fail \in Outcomes :
       /\ faultsLeft' = Hit(fail)
       /\ IF fail
          THEN /\ workers' = Fail(i)
               /\ files' = files
          ELSE /\ workers' = [workers EXCEPT ![i].pc = "find",
                                               ![i].handle = "own"]
               /\ files' = WithFile(files, workers[i].path, File(<<>>, "open"))
  /\ UNCHANGED <<dirs, source, target, clock, op, joined, callsLeft, prev,
                 target0, latestVars, lockVars, other>>

\* Not the code, a variant to compare with: a failed query falls through to the flush of the writer.
BackupFindFlushes(i) ==
  /\ Running(i)
  /\ op.kind = "backup"
  /\ workers[i].pc = "find"
  /\ \E fail \in Outcomes, order \in CursorOrders(source[workers[i].coll]) :
       /\ faultsLeft' = Hit(fail)
       /\ workers' = IF fail
                     THEN [workers EXCEPT ![i].pc = "flush",
                                          ![i].faulted = TRUE]
                     ELSE [workers EXCEPT ![i].pc = "stream",
                                          ![i].cursor = order]
  /\ UNCHANGED <<dirs, files, source, target, clock, op, joined, callsLeft,
                 prev, target0, latestVars, lockVars, other>>

\* lines 57-60: source.find(); an error ends the task.
BackupFind(i) ==
  /\ Running(i)
  /\ op.kind = "backup"
  /\ workers[i].pc = "find"
  /\ \E fail \in Outcomes, order \in CursorOrders(source[workers[i].coll]) :
       /\ faultsLeft' = Hit(fail)
       /\ workers' = IF fail
                     THEN Fail(i)
                     ELSE [workers EXCEPT ![i].pc = "stream",
                                          ![i].cursor = order]
  /\ UNCHANGED <<dirs, files, source, target, clock, op, joined, callsLeft,
                 prev, target0, latestVars, lockVars, other>>

\* Not the code, a variant to compare with: the line is put in front of the lines written so far.
SentFirst(f, line) == File(<<line>> \o f.lines, f.gz)

\* The file after writer.send(str): the line is appended.
Sent(f, line) == File(Append(f.lines, line), f.gz)

\* The files after task w sent a line.  The writer writes at its own
\* offset into the file it created: at the end of the file the line is
\* appended; where another writer of the same file already wrote, equal
\* bytes leave the file as it is and other bytes, or a gap behind a
\* truncation, damage the stream.  Nothing shows at the path when the file
\* of the writer was unlinked.
Put(fs, w, line) ==
  IF w.handle # "own" THEN fs
  ELSE LET f == fs[w.path]
       IN  WithFile(fs, w.path,
             IF w.sent = Len(f.lines)
             THEN Sent(File(f.lines, IF f.gz = "closed" THEN "open" ELSE f.gz),
                       line)
             ELSE IF w.sent < Len(f.lines) /\ f.lines[w.sent + 1] = line
             THEN f
             ELSE File(f.lines, "corrupt"))

\* Not the code, a variant to compare with: only a document whose line was written is counted.
BackupNextStepWritten(i, fail) ==
  LET w == workers[i]
      doc == Head(w.cursor)
  IN  /\ faultsLeft' = Hit(fail # "ok")
      /\ IF fail = "next"
         THEN /\ workers' = Fail(i)
              /\ files' = files
         ELSE IF w.cursor = <<>>
         THEN /\ workers' = [workers EXCEPT ![i].pc = "flush"]
              /\ files' = files
         ELSE /\ workers' = [workers EXCEPT
                               ![i].cursor = Tail(w.cursor),
                               ![i].count = IF ToJsonOk(doc) /\ fail = "ok"
                                            THEN w.count + 1 ELSE w.count,
                               ![i].sent = IF ToJsonOk(doc) /\ fail = "ok"
                                           THEN w.sent + 1 ELSE w.sent,
                               ![i].faulted = w.faulted \/ ~ToJsonOk(doc)
                                                \/ fail = "send"]
              /\ files' = IF ToJsonOk(doc) /\ fail = "ok"
                          THEN Put(files, w, ToJson(doc))
                          ELSE files

\* lines 61-83, one turn of the loop: cursor.try_next() (an error ends the
\* task; None leaves the loop), count += 1, the document is serialized (a
\* failure skips it) and sent to the writer (a failure is only logged).
\* fail is "next" or "send" when that call fails.
BackupNextStep(i, fail) ==
  LET w == workers[i]
      doc == Head(w.cursor)
  IN  /\ faultsLeft' = Hit(fail # "ok")
      /\ IF fail = "next"
         THEN /\ workers' = Fail(i)
              /\ files' = files
         ELSE IF w.cursor = <<>>
         THEN /\ workers' = [workers EXCEPT ![i].pc = "flush"]
              /\ files' = files
         ELSE /\ workers' = [workers EXCEPT
                               ![i].cursor = Tail(w.cursor),
                               ![i].count = w.count + 1,
                               ![i].sent = IF ToJsonOk(doc) /\ fail = "ok"
                                           THEN w.sent + 1 ELSE w.sent,
                               ![i].faulted = w.faulted \/ ~ToJsonOk(doc)
                                                \/ fail = "send"]
              /\ files' = IF ToJsonOk(doc) /\ fail = "ok"
                          THEN Put(files, w, ToJson(doc))
                          ELSE files

BackupNext(i) ==
  /\ Running(i)
  /\ op.kind = "backup"
  /\ workers[i].pc = "stream"
  /\ \E fail \in (IF faultsLeft > 0
                  THEN (IF workers[i].cursor # <<>>
                           /\ ToJsonOk(Head(workers[i].cursor))
                        THEN {"ok", "next", "send"} ELSE {"ok", "next"})
                  ELSE {"ok"}) :
       BackupNextStep(i, fail)
  /\ UNCHANGED <<dirs, source, target, clock, op, joined, callsLeft, prev,
                 target0, latestVars, lockVars, other>>

\* lines 85-90: the writer is flushed; an error is only logged.
BackupFlush(i) ==
  /\ Running(i)
  /\ op.kind = "backup"
  /\ workers[i].pc = "flush"
  /\ \E fail \in Outcomes :
       /\ faultsLeft' = Hit(fail)
       /\ workers' = [workers EXCEPT ![i].pc = "shutdown",
                                     ![i].faulted = workers[i].faulted \/ fail]
  /\ UNCHANGED <<dirs, files, source, target, clock, op, joined, callsLeft,
                 prev, target0, latestVars, lockVars, other>>

\* lines 92-113: the compression stream is shut down (its trailer written);
\* an error is only logged, and the task ends with Ok(count).  The trailer
\* finalizes the file at the path when the writer's file is still there and
\* holds what this writer sent.
BackupShutdown(i) ==
  /\ Running(i)
  /\ op.kind = "backup"
  /\ workers[i].pc = "shutdown"
  /\ \E fail \in Outcomes :
       /\ faultsLeft' = Hit(fail)
       /\ workers' = [workers EXCEPT ![i] = Ended(workers[i], "done", fail)]
       /\ files' = IF fail \/ workers[i].handle # "own" THEN files
                   ELSE LET f == files[workers[i].path]
                        IN  WithFile(files, workers[i].path,
                              File(f.lines,
                                   IF workers[i].sent = Len(f.lines)
                                      /\ f.gz # "corrupt"
                                   THEN "closed" ELSE "corrupt"))
  /\ UNCHANGED <<dirs, source, target, clock, op, joined, callsLeft, prev,
                 target0, latestVars, lockVars, other>>

\* The other call of backup gets the processor: two invocations of
\* "km database backup" are two processes on one backups folder, and what
\* is kept of each is its call, its tasks and the outcomes it collected.
Switch ==
  /\ other' = [op |-> op, workers |-> workers, joined |-> joined]
  /\ op' = other.op
  /\ workers' = other.workers
  /\ joined' = other.joined
  /\ UNCHANGED <<dirs, files, source, target, clock, faultsLeft, callsLeft,
                 prev, target0, latestVars, lockVars>>

\* -------------------------------------------------------------- the driver

\* Not the code, a variant to compare with: a task that has ended can still panic.
PanicAnytime(i) ==
  /\ Running(i)
  /\ faultsLeft > 0
  /\ faultsLeft' = faultsLeft - 1
  /\ workers' = [workers EXCEPT ![i] = Ended(workers[i], "panicked", TRUE)]
  /\ UNCHANGED <<dirs, files, source, target, clock, op, joined, callsLeft,
                 prev, target0, latestVars, lockVars, other>>

\* Not the code, a variant to compare with: a panic of one task cancels the tasks still running.
PanicCancels(i) ==
  /\ Running(i)
  /\ workers[i].pc \notin Terminal
  /\ faultsLeft > 0
  /\ faultsLeft' = faultsLeft - 1
  /\ workers' =
       [j \in 1..Len(workers) |->
          IF j = i THEN Ended(workers[j], "panicked", TRUE)
          ELSE IF workers[j].pc \in Terminal THEN workers[j]
          ELSE Ended(workers[j], "failed", FALSE)]
  /\ UNCHANGED <<dirs, files, source, target, clock, op, joined, callsLeft,
                 prev, target0, latestVars, lockVars, other>>

\* A task panics: its JoinHandle yields Err.
Panic(i) ==
  /\ Running(i)
  /\ workers[i].pc \notin Terminal
  /\ faultsLeft > 0
  /\ faultsLeft' = faultsLeft - 1
  /\ workers' = [workers EXCEPT ![i] = Ended(workers[i], "panicked", TRUE)]
  /\ UNCHANGED <<dirs, files, source, target, clock, op, joined, callsLeft,
                 prev, target0, latestVars, lockVars, other>>

\* Not the code, a variant to compare with: only a task that ended with Ok counts as finished.
FinishedOk == {i \in 1..Len(workers) : workers[i].pc = "done"}

\* handles.next().await yields Some: the outcome of a finished task, Ok(())
\* or Err(e); the error is logged and the loop goes on.
Finished == {i \in 1..Len(workers) : workers[i].pc \in Terminal}

\* Not the code, a variant to compare with: the driver takes an outcome from the stream
\* although no further task has ended.
JoinNextEarly ==
  /\ op.phase = "spawned"
  /\ joined < Len(workers)
  /\ joined' = joined + 1
  /\ UNCHANGED <<dirs, files, source, target, clock, op, workers, faultsLeft,
                 callsLeft, prev, target0, latestVars, lockVars, other>>

JoinNext ==
  /\ op.phase = "spawned"
  /\ joined < Cardinality(Finished)
  /\ joined' = joined + 1
  /\ UNCHANGED <<dirs, files, source, target, clock, op, workers, faultsLeft,
                 callsLeft, prev, target0, latestVars, lockVars, other>>

\* Not the code, a variant to compare with: the driver leaves the loop once one outcome was collected.
JoinNoneFirst ==
  /\ op.phase = "spawned"
  /\ joined >= 1
  /\ op' = [op EXCEPT !.phase = "joined"]
  /\ UNCHANGED <<dirs, files, source, target, clock, workers, joined,
                 faultsLeft, callsLeft, prev, target0, latestVars, lockVars, other>>

\* handles.next().await yields None: every task was collected.
JoinNone ==
  /\ op.phase = "spawned"
  /\ joined = Len(workers)
  /\ op' = [op EXCEPT !.phase = "joined"]
  /\ UNCHANGED <<dirs, files, source, target, clock, workers, joined, faultsLeft,
                 callsLeft, prev, target0, latestVars, lockVars, other>>

\* Not the code, a variant to compare with: the call returns Err when a task did not end with Ok.
ReturnResultStrict ==
  IF \E i \in 1..Len(workers) : workers[i].pc # "done" THEN "err" ELSE "ok"

\* info!("Finished ..."); Ok(())
ReturnResult == "ok"

Return ==
  /\ op.phase = "joined"
  /\ op' = [op EXCEPT !.phase = "returned", !.result = ReturnResult]
  /\ UNCHANGED <<dirs, files, source, target, clock, workers, joined, faultsLeft,
                 callsLeft, prev, target0, latestVars, lockVars, other>>

\* ------------------------------------------------------- the process ends

\* The files the tasks of a backup in progress have open for writing.
OpenPaths ==
  IF op.kind # "backup" THEN {}
  ELSE {workers[i].path : i \in {j \in 1..Len(workers) :
                                   /\ workers[j].pc \notin Terminal
                                   /\ workers[j].path \in DOMAIN files
                                   /\ files[workers[j].path].gz = "open"}}

\* The lines of f that reached the disk when its writer is dropped: the
\* BufWriter and the encoder are not flushed, so any prefix.
Prefixes(f) == {File(SubSeq(f.lines, 1, n), f.gz) : n \in 0..Len(f.lines)}

\* The tasks when the runtime is dropped: a task that has not ended is
\* dropped where it stands.
Dropped ==
  [j \in 1..Len(workers) |->
     IF workers[j].pc \in Terminal THEN workers[j]
     ELSE Ended(workers[j], "killed", TRUE)]

\* Not the code, a variant to compare with: the files still open are removed when the process ends.
KillCleansUp ==
  /\ op.phase \in {"spawned", "joined"}
  /\ op' = [op EXCEPT !.phase = "returned", !.result = "killed"]
  /\ workers' = Dropped
  /\ files' = [p \in (DOMAIN files) \ OpenPaths |-> files[p]]
  /\ UNCHANGED <<dirs, source, target, clock, joined, faultsLeft, callsLeft,
                 prev, target0, latestVars, lockVars, other>>

\* util main(), lines 37-46: SIGTERM makes select! return Ok(()), main
\* returns and the runtime is dropped with every task of the call in
\* progress; no writer is flushed or shut down, no file is removed.
Kill ==
  /\ op.phase \in {"spawned", "joined"}
  /\ op' = [op EXCEPT !.phase = "returned", !.result = "killed"]
  /\ workers' = Dropped
  /\ \E cut \in [OpenPaths -> UNION {Prefixes(files[p]) : p \in OpenPaths}] :
       /\ \A p \in OpenPaths : cut[p] \in Prefixes(files[p])
       /\ files' = [p \in DOMAIN files |->
                      IF p \in OpenPaths THEN cut[p] ELSE files[p]]
  /\ UNCHANGED <<dirs, source, target, clock, joined, faultsLeft, callsLeft,
                 prev, target0, latestVars, lockVars, other>>

\* ----------------------------------------------------------------- restore

\* A directory entry as read_dir delivers it; err is an entry that could not
\* be read (it is logged and skipped).
Entry(path, is_dir) == [path |-> path, is_dir |-> is_dir, err |-> FALSE]

\* Not the code, a variant to compare with: the entry is not checked to be a directory.
LatestEntryAnyKind(max, e) ==
  IF ~e.err /\ PathGreater(e.path, max) THEN e.path ELSE max

\* latest_restore_folder, one turn of the loop (lines 145-155).
LatestEntry(max, e) ==
  IF ~e.err /\ e.is_dir /\ PathGreater(e.path, max) THEN e.path ELSE max

RECURSIVE LatestFold(_, _)
LatestFold(max, entries) ==
  IF entries = <<>> THEN max
  ELSE LatestFold(LatestEntry(max, Head(entries)), Tail(entries))

\* latest_restore_folder (lines 131-158): max starts as the empty path.
LatestRestoreFolder(entries) == Components(LatestFold(<<>>, entries))

\* read_dir(d) on the modelled file system.
ReadDir(d) ==
  LET ps == PathsInOrder(Entries(dirs, files, d))
  IN  [i \in 1..Len(ps) |-> Entry(ps[i], ps[i] \in dirs)]

RestoreFolderArgs ==
  {None, Some(OtherFolder), Some(<<CurDirC>>)}
    \cup {Some(<<FormatTime(Times[t])>>) : t \in 1..Len(Times)}

\* Not the code, a variant to compare with: the restore_folder argument is ignored.
ResolveFolderLatest(backup_folder, arg) ==
  Components(LatestRestoreFolder(ReadDir(backup_folder)))

\* restore(), lines 21-27: the folder to restore.
ResolveFolder(backup_folder, arg) ==
  Components(IF arg.some THEN PathJoin(backup_folder, arg.path)
             ELSE LatestRestoreFolder(ReadDir(backup_folder)))

\* get_restore_files, lines 169-205: Stats from the root, then one pair per
\* entry of the restore folder whose file name ends in ".gz".
RECURSIVE GzPairs(_)
GzPairs(entries) ==
  IF entries = <<>> THEN <<>>
  ELSE LET path == Head(entries).path
       IN  (IF ~Head(entries).err /\ HasGzSuffix(FileName(path))
            THEN <<[coll |-> StripGzSuffix(FileName(path)),
                    path |-> Components(path)]>>
            ELSE <<>>) \o GzPairs(Tail(entries))

\* Not the code, a variant to compare with: Stats.gz is looked for in the restore folder.
GetRestoreFilesDated(backup_folder, restore_folder) ==
  <<[coll |-> StatsName,
     path |-> Components(restore_folder \o <<GzFileName(StatsName)>>)]>>
    \o GzPairs(ReadDir(restore_folder))

GetRestoreFiles(backup_folder, restore_folder) ==
  <<[coll |-> StatsName,
     path |-> Components(backup_folder \o <<GzFileName(StatsName)>>)]>>
    \o GzPairs(ReadDir(restore_folder))

\* restore(), lines 21-44 and 114: the folder is resolved, the restore files
\* are listed and one task is spawned per pair.  fresh: db is a new, empty
\* database, else the target used so far.  fail: reading a directory fails
\* for a reason other than the directory not being there.
RestoreStart(backup_folder, arg, fresh, fail) ==
  LET restore_folder == ResolveFolder(backup_folder, arg)
      ok == ~fail /\ restore_folder \in dirs
      pairs == GetRestoreFiles(backup_folder, restore_folder)
  IN  /\ Idle
      /\ prev' = Summary
      /\ callsLeft' = callsLeft - 1
      /\ target' = IF fresh THEN EmptyDb ELSE target
      /\ target0' = target'
      /\ joined' = 0
      /\ faultsLeft' = Hit(fail)
      /\ IF ok
         THEN /\ op' = [kind |-> "restore", phase |-> "spawned",
                        result |-> "none", folder |-> restore_folder,
                        root |-> backup_folder, arg |-> arg]
              /\ workers' = [i \in 1..Len(pairs) |->
                               Worker(pairs[i].coll, pairs[i].path, "open")]
         ELSE /\ op' = [kind |-> "restore", phase |-> "returned",
                        result |-> "err", folder |-> restore_folder,
                        root |-> backup_folder, arg |-> arg]
              /\ workers' = <<>>
      /\ UNCHANGED <<dirs, files, source, clock, latestVars, lockVars, other>>

\* The arguments restore is called with: the backups folder with every
\* restore_folder argument, and a folder without subfolder.
RestoreArgs ==
  {<<BackupFolder, arg>> : arg \in RestoreFolderArgs} \cup {<<OtherFolder, None>>}

RestoreCall ==
  \E args \in RestoreArgs, fresh \in BOOLEAN, fail \in Outcomes :
    RestoreStart(args[1], args[2], fresh, fail)

\* Not the code, a variant to compare with: the file is opened for writing and truncated.
RestoreOpenTruncates(i) ==
  /\ Running(i)
  /\ op.kind = "restore"
  /\ workers[i].pc = "open"
  /\ \E fail \in Outcomes :
       /\ faultsLeft' = Hit(fail)
       /\ workers' =
            IF fail \/ workers[i].path \notin DOMAIN files
            THEN Fail(i)
            ELSE [workers EXCEPT ![i].pc = "stream",
                                 ![i].cursor = files[workers[i].path].lines,
                                 ![i].gz = files[workers[i].path].gz]
       /\ files' =
            IF fail \/ workers[i].path \notin DOMAIN files
            THEN files
            ELSE WithFile(files, workers[i].path, File(<<>>, "open"))
  /\ UNCHANGED <<dirs, source, target, clock, op, joined, callsLeft,
                 prev, target0, latestVars, lockVars, other>>

\* lines 49-56: File::open; an error ends the task.
RestoreOpen(i) ==
  /\ Running(i)
  /\ op.kind = "restore"
  /\ workers[i].pc = "open"
  /\ \E fail \in Outcomes :
       /\ faultsLeft' = Hit(fail)
       /\ workers' =
            IF fail \/ workers[i].path \notin DOMAIN files
            THEN Fail(i)
            ELSE [workers EXCEPT ![i].pc = "stream",
                                 ![i].cursor = files[workers[i].path].lines,
                                 ![i].gz = files[workers[i].path].gz]
  /\ UNCHANGED <<dirs, files, source, target, clock, op, joined, callsLeft,
                 prev, target0, latestVars, lockVars, other>>

\* Not the code, a variant to compare with: a line that is skipped is counted all the same.
SkipLineCounted(w) ==
  [w EXCEPT !.cursor = Tail(w.cursor), !.count = w.count + 1]

\* lines 62-73, continue: the task goes to the next line; nothing is counted,
\* pushed or reported.
SkipLine(w) == [w EXCEPT !.cursor = Tail(w.cursor)]

\* Not the code, a variant to compare with: a line that does not parse ends the task.
RestoreNextStepStrict(i, fail) ==
  LET w == workers[i]
      line == Head(w.cursor)
      buffer == Append(w.buffer, FromJson(line))
      res == InsertMany(DocsOf(target, w.coll), buffer, fail = "insert")
  IN  /\ faultsLeft' = Hit(fail # "ok")
      /\ IF fail = "read" \/ w.gz = "corrupt"
            \/ (w.cursor = <<>> /\ w.gz = "open")
         THEN /\ workers' = Fail(i)
              /\ target' = target
         ELSE IF w.cursor = <<>>
         THEN /\ workers' = [workers EXCEPT ![i].pc = "final"]
              /\ target' = target
         ELSE IF line.kind = "blank"
         THEN /\ workers' = [workers EXCEPT ![i].cursor = Tail(w.cursor)]
              /\ target' = target
         ELSE IF ~FromJsonOk(line)
         THEN /\ workers' = Fail(i)
              /\ target' = target
         ELSE IF BufferFull(buffer)
         THEN /\ workers' = [workers EXCEPT
                               ![i].cursor = Tail(w.cursor),
                               ![i].count = w.count + 1,
                               ![i].buffer = Cleared(buffer, res.ok),
                               ![i].calls = Append(w.calls, Len(buffer)),
                               ![i].faulted = w.faulted \/ ~res.ok]
              /\ target' = WithCollection(target, w.coll, res.docs)
         ELSE /\ workers' = [workers EXCEPT
                               ![i].cursor = Tail(w.cursor),
                               ![i].count = w.count + 1,
                               ![i].buffer = buffer]
              /\ target' = target

\* lines 58-88, one turn of the loop: reader.try_next() (an error ends the
\* task; None leaves the loop); an empty line or a line that does not parse
\* is skipped; else count += 1, the document is pushed, and a buffer of
\* BatchSize documents is inserted (an error is only logged) and cleared.
\* fail is "read" or "insert" when that call fails.
RestoreNextStep(i, fail) ==
  LET w == workers[i]
      line == Head(w.cursor)
      buffer == Append(w.buffer, FromJson(line))
      res == InsertMany(DocsOf(target, w.coll), buffer, fail = "insert")
  IN  /\ faultsLeft' = Hit(fail # "ok")
      /\ IF fail = "read" \/ w.gz = "corrupt"
            \/ (w.cursor = <<>> /\ w.gz = "open")
         THEN /\ workers' = Fail(i)
              /\ target' = target
         ELSE IF w.cursor = <<>>
         THEN /\ workers' = [workers EXCEPT ![i].pc = "final"]
              /\ target' = target
         ELSE IF line.kind = "blank" \/ ~FromJsonOk(line)
         THEN /\ workers' = [workers EXCEPT ![i] = SkipLine(w)]
              /\ target' = target
         ELSE IF BufferFull(buffer)
         THEN /\ workers' = [workers EXCEPT
                               ![i].cursor = Tail(w.cursor),
                               ![i].count = w.count + 1,
                               ![i].buffer = Cleared(buffer, res.ok),
                               ![i].calls = Append(w.calls, Len(buffer)),
                               ![i].faulted = w.faulted \/ ~res.ok]
              /\ target' = WithCollection(target, w.coll, res.docs)
         ELSE /\ workers' = [workers EXCEPT
                               ![i].cursor = Tail(w.cursor),
                               ![i].count = w.count + 1,
                               ![i].buffer = buffer]
              /\ target' = target

\* Whether this turn of the loop pushes the document that fills the buffer.
FillsBuffer(w) ==
  /\ w.cursor # <<>>
  /\ w.gz # "corrupt"
  /\ BufferFull(Append(w.buffer, Head(w.cursor)))

RestoreNext(i) ==
  /\ Running(i)
  /\ op.kind = "restore"
  /\ workers[i].pc = "stream"
  /\ \E fail \in (IF faultsLeft > 0
                  THEN (IF FillsBuffer(workers[i])
                           /\ FromJsonOk(Head(workers[i].cursor))
                        THEN {"ok", "read", "insert"} ELSE {"ok", "read"})
                  ELSE {"ok"}) :
       RestoreNextStep(i, fail)
  /\ UNCHANGED <<dirs, files, source, clock, op, joined, callsLeft, prev,
                 target0, latestVars, lockVars, other>>

\* lines 89-110: what is left in the buffer is inserted; an error of this
\* insert ends the task with Err, else it ends with Ok(count).
RestoreFinal(i) ==
  /\ Running(i)
  /\ op.kind = "restore"
  /\ workers[i].pc = "final"
  /\ \E fail \in (IF workers[i].buffer # <<>> THEN Outcomes ELSE {FALSE}) :
       LET w == workers[i]
           res == InsertMany(DocsOf(target, w.coll), w.buffer, fail)
       IN  /\ faultsLeft' = Hit(fail)
           /\ IF w.buffer = <<>>
              THEN /\ workers' = [workers EXCEPT ![i] = Ended(w, "done", FALSE)]
                   /\ target' = target
              ELSE /\ workers' = [workers EXCEPT ![i] =
                                    Ended([w EXCEPT !.calls =
                                             Append(w.calls, Len(w.buffer))],
                                          IF res.ok THEN "done" ELSE "failed",
                                          ~res.ok)]
                   /\ target' = WithCollection(target, w.coll, res.docs)
  /\ UNCHANGED <<dirs, files, source, clock, op, joined, callsLeft, prev,
                 target0, latestVars, lockVars, other>>

\* -------------------------------------------------------------------- copy

\* copy(), lines 16-23 and 74: the collections of the source are listed and
\* one task is spawned per collection.  fresh: target_db is a new, empty
\* database, else the target used so far.  fail: the listing fails.
CopyStart(db, fresh, fail) ==
  LET names == ListCollectionNames(db)
  IN  /\ Idle
      /\ prev' = Summary
      /\ callsLeft' = callsLeft - 1
      /\ source' = db
      /\ target' = IF fresh THEN EmptyDb ELSE target
      /\ target0' = target'
      /\ joined' = 0
      /\ faultsLeft' = Hit(fail)
      /\ IF fail
         THEN /\ op' = [kind |-> "copy", phase |-> "returned",
                        result |-> "err", folder |-> <<>>,
                        root |-> <<>>, arg |-> None]
              /\ workers' = <<>>
         ELSE /\ op' = [kind |-> "copy", phase |-> "spawned",
                        result |-> "none", folder |-> <<>>,
                        root |-> <<>>, arg |-> None]
              /\ workers' = [i \in 1..Len(names) |->
                               Worker(names[i], <<>>, "find")]
      /\ UNCHANGED <<dirs, files, clock, latestVars, lockVars, other>>

CopyCall ==
  \E db \in SourceDbs, fresh \in BOOLEAN, fail \in Outcomes :
    CopyStart(db, fresh, fail)

\* Not the code, a variant to compare with: the cursor takes the documents out of the source collection.
CopyFindDrains(i) ==
  /\ Running(i)
  /\ op.kind = "copy"
  /\ workers[i].pc = "find"
  /\ \E fail \in Outcomes, order \in CursorOrders(source[workers[i].coll]) :
       /\ faultsLeft' = Hit(fail)
       /\ workers' = IF fail
                     THEN Fail(i)
                     ELSE [workers EXCEPT ![i].pc = "stream",
                                          ![i].cursor = order]
       /\ source' = IF fail THEN source
                    ELSE [source EXCEPT ![workers[i].coll] = {}]
  /\ UNCHANGED <<dirs, files, target, clock, op, joined, callsLeft,
                 prev, target0, latestVars, lockVars, other>>

\* lines 27-30: source.find(); an error ends the task.
CopyFind(i) ==
  /\ Running(i)
  /\ op.kind = "copy"
  /\ workers[i].pc = "find"
  /\ \E fail \in Outcomes, order \in CursorOrders(source[workers[i].coll]) :
       /\ faultsLeft' = Hit(fail)
       /\ workers' = IF fail
                     THEN Fail(i)
                     ELSE [workers EXCEPT ![i].pc = "stream",
                                          ![i].cursor = order]
  /\ UNCHANGED <<dirs, files, source, target, clock, op, joined, callsLeft,
                 prev, target0, latestVars, lockVars, other>>

\* Not the code, a variant to compare with: in copy a failed insert of a full batch ends the task.
CopyNextStepFatal(i, fail) ==
  LET w == workers[i]
      buffer == Append(w.buffer, Head(w.cursor))
      res == InsertMany(DocsOf(target, w.coll), buffer, fail = "insert")
  IN  /\ faultsLeft' = Hit(fail # "ok")
      /\ IF fail = "next"
         THEN /\ workers' = Fail(i)
              /\ target' = target
         ELSE IF w.cursor = <<>>
         THEN /\ workers' = [workers EXCEPT ![i].pc = "final"]
              /\ target' = target
         ELSE IF BufferFull(buffer) /\ ~res.ok
         THEN /\ workers' = [workers EXCEPT ![i] =
                               Ended([w EXCEPT !.count = w.count + 1,
                                               !.calls = Append(w.calls, Len(buffer))],
                                     "failed", TRUE)]
              /\ target' = WithCollection(target, w.coll, res.docs)
         ELSE IF BufferFull(buffer)
         THEN /\ workers' = [workers EXCEPT
                               ![i].cursor = Tail(w.cursor),
                               ![i].count = w.count + 1,
                               ![i].buffer = Cleared(buffer, res.ok),
                               ![i].calls = Append(w.calls, Len(buffer))]
              /\ target' = WithCollection(target, w.coll, res.docs)
         ELSE /\ workers' = [workers EXCEPT
                               ![i].cursor = Tail(w.cursor),
                               ![i].count = w.count + 1,
                               ![i].buffer = buffer]
              /\ target' = target

\* Not the code, a variant to compare with: copy flushes only once the buffer holds more than BatchSize.
CopyNextStepLate(i, fail) ==
  LET w == workers[i]
      buffer == Append(w.buffer, Head(w.cursor))
      res == InsertMany(DocsOf(target, w.coll), buffer, fail = "insert")
  IN  /\ faultsLeft' = Hit(fail # "ok")
      /\ IF fail = "next"
         THEN /\ workers' = Fail(i)
              /\ target' = target
         ELSE IF w.cursor = <<>>
         THEN /\ workers' = [workers EXCEPT ![i].pc = "final"]
              /\ target' = target
         ELSE IF Len(buffer) > BatchSize
         THEN /\ workers' = [workers EXCEPT
                               ![i].cursor = Tail(w.cursor),
                               ![i].count = w.count + 1,
                               ![i].buffer = Cleared(buffer, res.ok),
                               ![i].calls = Append(w.calls, Len(buffer)),
                               ![i].faulted = w.faulted \/ ~res.ok]
              /\ target' = WithCollection(target, w.coll, res.docs)
         ELSE /\ workers' = [workers EXCEPT
                               ![i].cursor = Tail(w.cursor),
                               ![i].count = w.count + 1,
                               ![i].buffer = buffer]
              /\ target' = target

\* lines 31-50, one turn of the loop: cursor.try_next() (an error ends the
\* task; None leaves the loop), count += 1, the document is pushed, and a
\* buffer of BatchSize documents is inserted (an error is only logged) and
\* cleared.  fail is "next" or "insert" when that call fails.
CopyNextStep(i, fail) ==
  LET w == workers[i]
      buffer == Append(w.buffer, Head(w.cursor))
      res == InsertMany(DocsOf(target, w.coll), buffer, fail = "insert")
  IN  /\ faultsLeft' = Hit(fail # "ok")
      /\ IF fail = "next"
         THEN /\ workers' = Fail(i)
              /\ target' = target
         ELSE IF w.cursor = <<>>
         THEN /\ workers' = [workers EXCEPT ![i].pc = "final"]
              /\ target' = target
         ELSE IF BufferFull(buffer)
         THEN /\ workers' = [workers EXCEPT
                               ![i].cursor = Tail(w.cursor),
                               ![i].count = w.count + 1,
                               ![i].buffer = Cleared(buffer, res.ok),
                               ![i].calls = Append(w.calls, Len(buffer)),
                               ![i].faulted = w.faulted \/ ~res.ok]
              /\ target' = WithCollection(target, w.coll, res.docs)
         ELSE /\ workers' = [workers EXCEPT
                               ![i].cursor = Tail(w.cursor),
                               ![i].count = w.count + 1,
                               ![i].buffer = buffer]
              /\ target' = target

CopyNext(i) ==
  /\ Running(i)
  /\ op.kind = "copy"
  /\ workers[i].pc = "stream"
  /\ \E fail \in (IF faultsLeft > 0
                  THEN (IF FillsBuffer(workers[i])
                        THEN {"ok", "next", "insert"} ELSE {"ok", "next"})
                  ELSE {"ok"}) :
       CopyNextStep(i, fail)
  /\ UNCHANGED <<dirs, files, source, clock, op, joined, callsLeft, prev,
                 target0, latestVars, lockVars, other>>

\* lines 51-72: what is left in the buffer is inserted; an error of this
\* insert ends the task with Err, else it ends with Ok(count).
CopyFinal(i) ==
  /\ Running(i)
  /\ op.kind = "copy"
  /\ workers[i].pc = "final"
  /\ \E fail \in (IF workers[i].buffer # <<>> THEN Outcomes ELSE {FALSE}) :
       LET w == workers[i]
           res == InsertMany(DocsOf(target, w.coll), w.buffer, fail)
       IN  /\ faultsLeft' = Hit(fail)
           /\ IF w.buffer = <<>>
              THEN /\ workers' = [workers EXCEPT ![i] = Ended(w, "done", FALSE)]
                   /\ target' = target
              ELSE /\ workers' = [workers EXCEPT ![i] =
                                    Ended([w EXCEPT !.calls =
                                             Append(w.calls, Len(w.buffer))],
                                          IF res.ok THEN "done" ELSE "failed",
                                          ~res.ok)]
                   /\ target' = WithCollection(target, w.coll, res.docs)
  /\ UNCHANGED <<dirs, files, source, clock, op, joined, callsLeft, prev,
                 target0, latestVars, lockVars, other>>

\* ------------------------------------------ latest_restore_folder, stepwise

\* The entries a backups folder can hold: three dated folders, a plain file
\* "z" and an entry that cannot be read.
DatedEntries == {Entry(BackupFolder \o <<FormatTime(Times[t])>>, TRUE) :
                   t \in 1..Len(Times)}

PlainEntry == Entry(BackupFolder \o <<<<122>>>>, FALSE)

BadEntry == [path |-> <<>>, is_dir |-> FALSE, err |-> TRUE]

SampleEntries == DatedEntries \cup {PlainEntry, BadEntry}

\* Every order in which read_dir can deliver the entries of set S.
Listings(S) ==
  {l \in [1..Cardinality(S) -> S] : \A i, j \in DOMAIN l : i # j => l[i] # l[j]}

\* lines 144-155: next_entry() delivers an entry.
LatestNext ==
  /\ ~lres.done
  /\ lpos < Len(listing)
  /\ lmax' = LatestEntry(lmax, listing[lpos + 1])
  /\ lpos' = lpos + 1
  /\ UNCHANGED <<dirs, files, source, target, clock, op, workers, joined,
                 faultsLeft, callsLeft, prev, target0, listing, lres, lockVars, other>>

\* lines 156-157: next_entry() delivers None; Ok(max.components().collect()).
LatestReturn ==
  /\ ~lres.done
  /\ lpos = Len(listing)
  /\ lres' = [done |-> TRUE, path |-> Components(lmax)]
  /\ UNCHANGED <<dirs, files, source, target, clock, op, workers, joined,
                 faultsLeft, callsLeft, prev, target0, listing, lpos, lmax,
                 lockVars, other>>

\* ------------------------------------------------------------- maintenance

\* The engine's state, which resolve() does not touch.
EngineVars ==
  <<dirs, files, source, target, clock, op, workers, joined, faultsLeft,
    callsLeft, prev, target0, latestVars, other>>

BackupCoreDatabase == "BackupCoreDatabase"

ClearRepoCache == "ClearRepoCache"

\* An invocation of resolve(): the method, user.admin, its position, what it
\* returned, and the entries read_dir still has to deliver (ClearRepoCache).
NoRequest ==
  [kind |-> "none", admin |-> FALSE, pc |-> "none", result |-> "none",
   contents |-> {}]

RequestIds == 1..MaxRequests

\* The holder of the lock of a method: 0 when it is free.
LockOf(kind) ==
  IF kind = BackupCoreDatabase THEN backup_database_lock
  ELSE clear_repo_cache_lock

\* Not the code, a variant to compare with: try_lock() succeeds whoever holds the lock.
TryLockAlways(holder) == TRUE

\* Mutex::try_lock(): Ok when the lock is free, Err at once when it is held.
TryLockOk(holder) == holder = 0

\* The two locks once p holds (p > 0) or has dropped (p = 0) the one of kind.
SetLock(kind, p) ==
  /\ backup_database_lock' =
       IF kind = BackupCoreDatabase THEN p ELSE backup_database_lock
  /\ clear_repo_cache_lock' =
       IF kind = ClearRepoCache THEN p ELSE clear_repo_cache_lock

\* Not the code, a variant to compare with: the lock stays held when resolve() returns an error.
ReturnWithHeld(p, result) ==
  /\ requests' = [requests EXCEPT ![p].pc = "returned", ![p].result = result,
                                  ![p].contents = {}]
  /\ SetLock(requests[p].kind, IF result = "failed" THEN p ELSE 0)

\* resolve() returns: _lock is dropped with the frame.
ReturnWith(p, result) ==
  /\ requests' = [requests EXCEPT ![p].pc = "returned", ![p].result = result,
                                  ![p].contents = {}]
  /\ SetLock(requests[p].kind, 0)

\* A request arrives: resolve() is entered for a method and a user.
Arrive(p) ==
  /\ requests[p].pc = "none"
  /\ \E kind \in {BackupCoreDatabase, ClearRepoCache}, admin \in BOOLEAN :
       requests' = [requests EXCEPT ![p] =
                      [NoRequest EXCEPT !.kind = kind, !.admin = admin,
                                        !.pc = "admin"]]
  /\ UNCHANGED <<backup_database_lock, clear_repo_cache_lock, repo_directory>>
  /\ UNCHANGED EngineVars

\* maintenance.rs:35-40 and 110-115: if !user.admin, Err(UNAUTHORIZED).
CheckAdmin(p) ==
  /\ requests[p].pc = "admin"
  /\ requests' = IF requests[p].admin
                 THEN [requests EXCEPT ![p].pc = "try_lock"]
                 ELSE [requests EXCEPT ![p].pc = "returned",
                                       ![p].result = "unauthorized"]
  /\ UNCHANGED <<backup_database_lock, clear_repo_cache_lock, repo_directory>>
  /\ UNCHANGED EngineVars

\* maintenance.rs:42-44 and 117-119: try_lock().context("... already in
\* progress...")?: the lock is taken, or resolve() returns Err at once.
TryLock(p) ==
  /\ requests[p].pc = "try_lock"
  /\ IF TryLockOk(LockOf(requests[p].kind))
     THEN /\ SetLock(requests[p].kind, p)
          /\ requests' = [requests EXCEPT ![p].pc =
                            IF requests[p].kind = BackupCoreDatabase
                            THEN "update" ELSE "read_dir"]
     ELSE /\ requests' = [requests EXCEPT ![p].pc = "returned",
                                          ![p].result = "busy"]
          /\ UNCHANGED <<backup_database_lock, clear_repo_cache_lock>>
  /\ UNCHANGED repo_directory
  /\ UNCHANGED EngineVars

\* maintenance.rs:121-123: update_update(update.clone()).await?
BackupUpdate(p) ==
  /\ requests[p].pc = "update"
  /\ \E fail \in BOOLEAN :
       IF fail THEN ReturnWith(p, "failed")
       ELSE /\ requests' = [requests EXCEPT ![p].pc = "command"]
            /\ UNCHANGED <<backup_database_lock, clear_repo_cache_lock>>
  /\ UNCHANGED repo_directory
  /\ UNCHANGED EngineVars

\* maintenance.rs:125-132: run_komodo_command("km database backup --yes");
\* its log, success or not, is pushed to the update.
BackupCommand(p) ==
  /\ requests[p].pc = "command"
  /\ requests' = [requests EXCEPT ![p].pc = "finalize"]
  /\ UNCHANGED <<backup_database_lock, clear_repo_cache_lock, repo_directory>>
  /\ UNCHANGED EngineVars

\* maintenance.rs:46-51: read_dir(&core_config().repo_directory).await?
ClearReadDir(p) ==
  /\ requests[p].pc = "read_dir"
  /\ \E fail \in BOOLEAN :
       IF fail THEN ReturnWith(p, "failed")
       ELSE /\ requests' = [requests EXCEPT ![p].pc = "entries",
                                            ![p].contents = repo_directory]
            /\ UNCHANGED <<backup_database_lock, clear_repo_cache_lock>>
  /\ UNCHANGED repo_directory
  /\ UNCHANGED EngineVars

\* maintenance.rs:53-83, one turn of the loop: the next entry is removed
\* with remove_dir_all (an error is pushed to the update's logs), or the
\* loop ends.
ClearEntry(p) ==
  /\ requests[p].pc = "entries"
  /\ IF requests[p].contents = {}
     THEN /\ requests' = [requests EXCEPT ![p].pc = "finalize"]
          /\ UNCHANGED repo_directory
     ELSE \E path \in requests[p].contents, fail \in BOOLEAN :
            /\ requests' = [requests EXCEPT
                              ![p].contents = requests[p].contents \ {path}]
            /\ repo_directory' =
                 IF fail THEN repo_directory ELSE repo_directory \ {path}
  /\ UNCHANGED <<backup_database_lock, clear_repo_cache_lock>>
  /\ UNCHANGED EngineVars

\* maintenance.rs:85-88 and 133-137: update.finalize();
\* update_update(update.clone()).await?; Ok(update)
Finalize(p) ==
  /\ requests[p].pc = "finalize"
  /\ \E fail \in BOOLEAN : ReturnWith(p, IF fail THEN "failed" ELSE "ok")
  /\ UNCHANGED repo_directory
  /\ UNCHANGED EngineVars

\* ---------------------------------------------------------- specifications

NoListing == <<>>

NoResult == [done |-> FALSE, path |-> <<>>]

\* The state before the first call, but for the disk and the two budgets.
Start ==
  /\ source = DbOne
  /\ target = TargetOld
  /\ clock = 1
  /\ op = NoOp
  /\ workers = <<>>
  /\ joined = 0
  /\ prev = NoPrev
  /\ target0 = target
  /\ lpos = 0
  /\ lmax = <<>>
  /\ lres = NoResult
  /\ requests = [p \in RequestIds |-> NoRequest]
  /\ backup_database_lock = 0
  /\ clear_repo_cache_lock = 0
  /\ repo_directory = 1..MaxRepoDirs
  /\ other = NoRun

\* Spec: one call, with faults injected, on a disk that holds an older
\* snapshot.
Init ==
  /\ Start
  /\ dirs = OldDirs
  /\ files = OldFiles
  /\ faultsLeft = MaxFaults
  /\ callsLeft = 1
  /\ listing = NoListing

\* SpecSeq: calls one after the other, starting with an empty backups
\* folder, no fault injected (a missing file or folder, a document that does
\* not serialize and a rejected insert still happen).
InitSeq ==
  /\ Start
  /\ dirs = {BackupFolder}
  /\ files = NoFiles
  /\ faultsLeft = 0
  /\ callsLeft = MaxCalls
  /\ listing = NoListing

WorkerIds == 1..Len(workers)

Calls ==
  \/ BackupCall
  \/ RestoreCall
  \/ CopyCall

Tasks ==
  \/ \E i \in WorkerIds : BackupRemove(i)
  \/ \E i \in WorkerIds : BackupCreate(i)
  \/ \E i \in WorkerIds : BackupFind(i)
  \/ \E i \in WorkerIds : BackupNext(i)
  \/ \E i \in WorkerIds : BackupFlush(i)
  \/ \E i \in WorkerIds : BackupShutdown(i)
  \/ \E i \in WorkerIds : RestoreOpen(i)
  \/ \E i \in WorkerIds : RestoreNext(i)
  \/ \E i \in WorkerIds : RestoreFinal(i)
  \/ \E i \in WorkerIds : CopyFind(i)
  \/ \E i \in WorkerIds : CopyNext(i)
  \/ \E i \in WorkerIds : CopyFinal(i)

Driver ==
  \/ JoinNext
  \/ JoinNone
  \/ Return

NextSeq == Calls \/ Tasks \/ Driver

SpecSeq == InitSeq /\ [][NextSeq]_vars

Next ==
  \/ BackupCall
  \/ RestoreCall
  \/ CopyCall
  \/ \E i \in WorkerIds : BackupRemove(i)
  \/ \E i \in WorkerIds : BackupCreate(i)
  \/ \E i \in WorkerIds : BackupFind(i)
  \/ \E i \in WorkerIds : BackupNext(i)
  \/ \E i \in WorkerIds : BackupFlush(i)
  \/ \E i \in WorkerIds : BackupShutdown(i)
  \/ \E i \in WorkerIds : RestoreOpen(i)
  \/ \E i \in WorkerIds : RestoreNext(i)
  \/ \E i \in WorkerIds : RestoreFinal(i)
  \/ \E i \in WorkerIds : CopyFind(i)
  \/ \E i \in WorkerIds : CopyNext(i)
  \/ \E i \in WorkerIds : CopyFinal(i)
  \/ \E i \in WorkerIds : Panic(i)
  \/ JoinNext
  \/ JoinNone
  \/ Return

Spec == Init /\ [][Next]_vars

\* SpecLatest: latest_restore_folder on every listing of every set of entries.
InitLatest ==
  /\ Start
  /\ dirs = {BackupFolder}
  /\ files = NoFiles
  /\ faultsLeft = 0
  /\ callsLeft = 0
  /\ \E S \in SUBSET SampleEntries : listing \in Listings(S)

NextLatest == LatestNext \/ LatestReturn

SpecLatest == InitLatest /\ [][NextLatest]_vars

\* SpecRuns: backups of one small database at instants that do not
\* decrease, and restores of the newest folder, one call after the other,
\* starting with an empty backups folder, no fault injected.
BackupRun ==
  \E ti \in {clock, clock + 1} \cap (1..Len(Times)) :
    BackupStart(DbTwo, ti, "ok")

RestoreLatest ==
  \E fresh \in BOOLEAN : RestoreStart(BackupFolder, None, fresh, FALSE)

InitRuns ==
  /\ Start
  /\ dirs = {BackupFolder}
  /\ files = NoFiles
  /\ faultsLeft = 0
  /\ callsLeft = MaxRuns
  /\ listing = NoListing

NextRuns ==
  \/ BackupRun
  \/ RestoreLatest
  \/ \E i \in WorkerIds : BackupRemove(i)
  \/ \E i \in WorkerIds : BackupCreate(i)
  \/ \E i \in WorkerIds : BackupFind(i)
  \/ \E i \in WorkerIds : BackupNext(i)
  \/ \E i \in WorkerIds : BackupFlush(i)
  \/ \E i \in WorkerIds : BackupShutdown(i)
  \/ \E i \in WorkerIds : RestoreOpen(i)
  \/ \E i \in WorkerIds : RestoreNext(i)
  \/ \E i \in WorkerIds : RestoreFinal(i)
  \/ JoinNext
  \/ JoinNone
  \/ Return

SpecRuns == InitRuns /\ [][NextRuns]_vars

\* SpecLock: invocations of BackupCoreDatabase and ClearRepoCache by admins
\* and other users, their steps interleaved.
InitLock ==
  /\ Start
  /\ dirs = {BackupFolder}
  /\ files = NoFiles
  /\ faultsLeft = 0
  /\ callsLeft = 0
  /\ listing = NoListing

NextLock ==
  \/ \E p \in RequestIds : Arrive(p)
  \/ \E p \in RequestIds : CheckAdmin(p)
  \/ \E p \in RequestIds : TryLock(p)
  \/ \E p \in RequestIds : BackupUpdate(p)
  \/ \E p \in RequestIds : BackupCommand(p)
  \/ \E p \in RequestIds : ClearReadDir(p)
  \/ \E p \in RequestIds : ClearEntry(p)
  \/ \E p \in RequestIds : Finalize(p)

SpecLock == InitLock /\ [][NextLock]_vars

\* SpecLockFair: two requests, as in SpecLock, under the scheduling of the
\* runtime: every await inside resolve() returns (the update write, the
\* command, read_dir, each entry of the directory), so an invocation that
\* can take its next step takes it.
Resolve(p) ==
  \/ CheckAdmin(p)
  \/ TryLock(p)
  \/ BackupUpdate(p)
  \/ BackupCommand(p)
  \/ ClearReadDir(p)
  \/ ClearEntry(p)
  \/ Finalize(p)

NextLockFair ==
  \/ \E p \in 1..MaxFairRequests : Arrive(p)
  \/ \E p \in 1..MaxFairRequests : CheckAdmin(p)
  \/ \E p \in 1..MaxFairRequests : TryLock(p)
  \/ \E p \in 1..MaxFairRequests : BackupUpdate(p)
  \/ \E p \in 1..MaxFairRequests : BackupCommand(p)
  \/ \E p \in 1..MaxFairRequests : ClearReadDir(p)
  \/ \E p \in 1..MaxFairRequests : ClearEntry(p)
  \/ \E p \in 1..MaxFairRequests : Finalize(p)

SpecLockFair ==
  /\ InitLock
  /\ [][NextLockFair]_vars
  /\ \A p \in 1..MaxFairRequests : WF_vars(Resolve(p))

\* SpecExport: one backup, with faults injected, on the disk that holds an
\* older snapshot.
NextExport ==
  \/ BackupCall
  \/ \E i \in WorkerIds : BackupRemove(i)
  \/ \E i \in WorkerIds : BackupCreate(i)
  \/ \E i \in WorkerIds : BackupFind(i)
  \/ \E i \in WorkerIds : BackupNext(i)
  \/ \E i \in WorkerIds : BackupFlush(i)
  \/ \E i \in WorkerIds : BackupShutdown(i)
  \/ \E i \in WorkerIds : Panic(i)
  \/ JoinNext
  \/ JoinNone
  \/ Return

SpecExport == Init /\ [][NextExport]_vars

\* SpecImport: one restore or one copy, with faults injected, on the disk
\* that holds an older snapshot.
NextImport ==
  \/ RestoreCall
  \/ CopyCall
  \/ \E i \in WorkerIds : RestoreOpen(i)
  \/ \E i \in WorkerIds : RestoreNext(i)
  \/ \E i \in WorkerIds : RestoreFinal(i)
  \/ \E i \in WorkerIds : CopyFind(i)
  \/ \E i \in WorkerIds : CopyNext(i)
  \/ \E i \in WorkerIds : CopyFinal(i)
  \/ \E i \in WorkerIds : Panic(i)
  \/ JoinNext
  \/ JoinNone
  \/ Return

SpecImport == Init /\ [][NextImport]_vars

\* SpecFair: one call with faults injected, as in Spec, where every cursor
\* read, file operation and bulk insert returns (a value or an error; no
\* task panics), under the scheduling the runtime gives: a spawned task that
\* can take a step is polled again and the driver that can take a step takes
\* it, which is weak fairness of the task steps and of the driver steps.
SpecFair == Init /\ [][NextSeq]_vars /\ WF_vars(Tasks) /\ WF_vars(Driver)

\* SpecLines: one restore of the latest folder, which holds two collection
\* files: A.gz with any lines (documents, empty lines, lines that do not
\* parse; an _id can come twice) and E.gz with the lines of A.gz that are
\* not empty.  No fault is injected.
LineAlphabet == {JsonLine(1, 5), JsonLine(2, -7), BlankLine, GarbageLine}

LineSeqs == UNION {[1..n -> LineAlphabet] : n \in 0..MaxLines}

RECURSIVE NoBlank(_)
NoBlank(lines) ==
  IF lines = <<>> THEN <<>>
  ELSE (IF Head(lines) = BlankLine THEN <<>> ELSE <<Head(lines)>>)
         \o NoBlank(Tail(lines))

InitLines ==
  /\ Start
  /\ dirs = {BackupFolder, OldDated}
  /\ \E lines \in LineSeqs :
       files = (OldDated \o <<GzFileName(CollA)>> :> File(lines, "closed"))
            @@ (OldDated \o <<GzFileName(CollE)>> :> File(NoBlank(lines), "closed"))
  /\ faultsLeft = 0
  /\ callsLeft = 1
  /\ listing = NoListing

NextLines ==
  \/ RestoreLatest
  \/ \E i \in WorkerIds : RestoreOpen(i)
  \/ \E i \in WorkerIds : RestoreNext(i)
  \/ \E i \in WorkerIds : RestoreFinal(i)
  \/ JoinNext
  \/ JoinNone
  \/ Return

SpecLines == InitLines /\ [][NextLines]_vars

\* SpecCrash: backups of DbX and restores of the latest folder, one after
\* the other on an empty backups folder, where the process can be ended
\* in the middle of a call; the next call is made by a new process.
BackupOne ==
  \E ti \in {clock, clock + 1} \cap (1..Len(Times)) :
    BackupStart(DbX, ti, "ok")

\* restore without a restore folder, into a new, empty database.
RestoreNewest == RestoreStart(BackupFolder, None, TRUE, FALSE)

NextCrash ==
  \/ BackupOne
  \/ RestoreNewest
  \/ \E i \in WorkerIds : BackupRemove(i)
  \/ \E i \in WorkerIds : BackupCreate(i)
  \/ \E i \in WorkerIds : BackupFind(i)
  \/ \E i \in WorkerIds : BackupNext(i)
  \/ \E i \in WorkerIds : BackupFlush(i)
  \/ \E i \in WorkerIds : BackupShutdown(i)
  \/ \E i \in WorkerIds : RestoreOpen(i)
  \/ \E i \in WorkerIds : RestoreNext(i)
  \/ \E i \in WorkerIds : RestoreFinal(i)
  \/ JoinNext
  \/ JoinNone
  \/ Return
  \/ Kill

SpecCrash == InitRuns /\ [][NextCrash]_vars

\* SpecFaults: one call with faults injected, as in Spec, where no task
\* panics: every failure is the error of a call the task made.
SpecFaults == Init /\ [][NextSeq]_vars

\* SpecStop: one backup, with faults injected, on the disk that holds an
\* older snapshot and a complete Stats.gz; the process can end while the
\* tasks run.
NextStop ==
  \/ BackupCall
  \/ \E i \in WorkerIds : BackupRemove(i)
  \/ \E i \in WorkerIds : BackupCreate(i)
  \/ \E i \in WorkerIds : BackupFind(i)
  \/ \E i \in WorkerIds : BackupNext(i)
  \/ \E i \in WorkerIds : BackupFlush(i)
  \/ \E i \in WorkerIds : BackupShutdown(i)
  \/ \E i \in WorkerIds : Panic(i)
  \/ JoinNext
  \/ JoinNone
  \/ Return
  \/ Kill

SpecStop == Init /\ [][NextStop]_vars

\* SpecNames: a database with Stats and one collection of any name made of
\* the bytes of the suffix, ".", "g" and "z", is backed up, and the newest
\* snapshot is restored into a new database; no fault injected.
InitNames ==
  /\ \E c \in UNION {[1..n -> {46, 103, 122}] : n \in 1..MaxNameLen} :
       source = (c :> {Doc(1, "int32", 5)}) @@ (StatsName :> {Doc(10, "int32", 1)})
  /\ target = TargetOld
  /\ clock = 1
  /\ op = NoOp
  /\ workers = <<>>
  /\ joined = 0
  /\ prev = NoPrev
  /\ target0 = target
  /\ lpos = 0
  /\ lmax = <<>>
  /\ lres = NoResult
  /\ requests = [p \in RequestIds |-> NoRequest]
  /\ backup_database_lock = 0
  /\ clear_repo_cache_lock = 0
  /\ repo_directory = 1..MaxRepoDirs
  /\ other = NoRun
  /\ dirs = {BackupFolder}
  /\ files = NoFiles
  /\ faultsLeft = 0
  /\ callsLeft = MaxCalls
  /\ listing = NoListing

NextNames ==
  \/ BackupStart(source, clock, "ok")
  \/ RestoreNewest
  \/ \E i \in WorkerIds : BackupRemove(i)
  \/ \E i \in WorkerIds : BackupCreate(i)
  \/ \E i \in WorkerIds : BackupFind(i)
  \/ \E i \in WorkerIds : BackupNext(i)
  \/ \E i \in WorkerIds : BackupFlush(i)
  \/ \E i \in WorkerIds : BackupShutdown(i)
  \/ \E i \in WorkerIds : RestoreOpen(i)
  \/ \E i \in WorkerIds : RestoreNext(i)
  \/ \E i \in WorkerIds : RestoreFinal(i)
  \/ JoinNext
  \/ JoinNone
  \/ Return

SpecNames == InitNames /\ [][NextNames]_vars

\* SpecTwo: backups of the database with the empty collection B and Stats,
\* each at the instant the clock shows or the next, where a second backup
\* can be started and run while the first is under way; no fault injected.
NextTwo ==
  \/ BackupRun
  \/ \E i \in WorkerIds : BackupRemove(i)
  \/ \E i \in WorkerIds : BackupCreate(i)
  \/ \E i \in WorkerIds : BackupFind(i)
  \/ \E i \in WorkerIds : BackupNext(i)
  \/ \E i \in WorkerIds : BackupFlush(i)
  \/ \E i \in WorkerIds : BackupShutdown(i)
  \/ JoinNext
  \/ JoinNone
  \/ Return
  \/ Switch

SpecTwo == InitSeq /\ [][NextTwo]_vars

\* ------------------------------------------------------------------ claims

\* Lexicographic order of byte strings, stated directly: a is a proper prefix
\* of b, or at the first position where they differ a holds the smaller byte.
LexLess(a, b) ==
  \E k \in 0..Len(a) :
    /\ k <= Len(b)
    /\ \A j \in 1..k : a[j] = b[j]
    /\ IF k = Len(a) THEN k < Len(b) ELSE k < Len(b) /\ a[k + 1] < b[k + 1]

\* The names of the subdirectories a listing delivers.
DirNames(l) == {FileName(l[i].path) : i \in {j \in DOMAIN l : ~l[j].err /\ l[j].is_dir}}

\* "2025-02-01_00-00-00"
Feb2025 == <<50, 48, 50, 53, 45, 48, 50, 45, 48, 49, 95, 48, 48, 45, 48, 48, 45, 48, 48>>

\* C4: latest_restore_folder returns the subdirectory whose name is
\* lexicographically greatest among the subdirectories the listing delivers,
\* in every order of the listing, plain files and unreadable entries being
\* ignored; for the three dated folders of the example it is
\* "2025-02-01_00-00-00".
C4_LatestIsGreatest ==
  (lres.done /\ DirNames(listing) # {}) =>
    /\ Len(lres.path) = Len(BackupFolder) + 1
    /\ Parent(lres.path) = BackupFolder
    /\ FileName(lres.path) \in DirNames(listing)
    /\ \A n \in DirNames(listing) :
         n = FileName(lres.path) \/ LexLess(n, FileName(lres.path))
    /\ (Cardinality(DirNames(listing)) = 3 => FileName(lres.path) = Feb2025)

\* C4 witness: the three dated folders and the plain file "z" were listed,
\* the newest folder first and the plain file last.
C4_Witness ==
  /\ lres.done
  /\ Cardinality(DirNames(listing)) = 3
  /\ Len(listing) >= 4
  /\ listing[1] = Entry(BackupFolder \o <<Feb2025>>, TRUE)
  /\ listing[Len(listing)] = PlainEntry
  /\ FileName(lres.path) = Feb2025

\* The JSON forms of the documents of a set that have one.
JsonForms(docs) == {ToJson(d) : d \in {x \in docs : ToJsonOk(x)}}

Serializable(docs) == {x \in docs : ToJsonOk(x)}

\* The call in progress returned after its tasks were spawned and joined.
Returned(kind) ==
  /\ op.kind = kind
  /\ op.phase = "returned"
  /\ op.result = "ok"

\* C1: round trip.  After a backup of the source and then a restore of the
\* folder that backup wrote, into a database that was empty, every collection
\* of the source holds in the target the same multiset of documents as in the
\* source, compared by JSON form (the width of an integer is not compared),
\* whatever the order of the lines and the interleaving of the tasks.  No
\* fault is injected in SpecSeq; a document without JSON form has none to
\* compare.
C1_RoundTrip ==
  (/\ Returned("restore")
   /\ prev.kind = "backup"
   /\ prev.result = "ok"
   /\ op.root = BackupFolder
   /\ op.folder = prev.folder
   /\ target0 = EmptyDb)
  => \A c \in DOMAIN source :
       /\ JsonForms(DocsOf(target, c)) = JsonForms(source[c])
       /\ Cardinality(DocsOf(target, c)) = Cardinality(Serializable(source[c]))

\* C1 witness: DbOne went through backup and restore; A was written in
\* descending order, and its document -1 came back with another width.
C1_Witness ==
  /\ Returned("restore")
  /\ prev.kind = "backup"
  /\ op.folder = prev.folder
  /\ target0 = EmptyDb
  /\ source = DbOne
  /\ files[op.folder \o <<GzFileName(CollA)>>].lines[1].id = 3
  /\ CollA \in DOMAIN target
  /\ Cardinality(target[CollA]) = 3
  /\ target[CollA] # source[CollA]
  /\ StatsName \in DOMAIN target
  /\ target[StatsName] = source[StatsName]

\* The documents a collection file holds: its lines that parse.
ParsedLines(f) == {j \in 1..Len(f.lines) : FromJsonOk(f.lines[j])}

FileDocs(f) == {FromJson(f.lines[j]) : j \in ParsedLines(f)}

\* C2: partial failure isolation on restore.  Restoring the dated folder in
\* which B.gz is no gzip data, once the folder was listed and the tasks
\* spawned, the call returns Ok, the task of B ends
\* failed, and every task of A or C that no failure of its own hit ends done
\* with count = the documents of its file, all of them in the target.
C2_PartialFailureIsolation ==
  (/\ op.kind = "restore"
   /\ op.phase = "returned"
   /\ op.root = BackupFolder
   /\ op.folder = OldDated
   /\ workers # <<>>)
  => /\ op.result = "ok"
     /\ \E i \in 1..Len(workers) : workers[i].coll = CollB
     /\ \A i \in 1..Len(workers) :
          /\ workers[i].coll = CollB => workers[i].pc \in {"failed", "panicked"}
          /\ (workers[i].coll \in {CollA, CollC} /\ ~workers[i].faulted)
               => /\ workers[i].pc = "done"
                  /\ workers[i].count
                       = Cardinality(ParsedLines(files[workers[i].path]))
                  /\ FileDocs(files[workers[i].path])
                       \subseteq DocsOf(target, workers[i].coll)

\* C2 witness: B failed while A (3 documents) and C (1 document) were
\* restored into an empty database.
C2_Witness ==
  /\ Returned("restore")
  /\ op.folder = OldDated
  /\ target0 = EmptyDb
  /\ \E a, b, c \in 1..Len(workers) :
       /\ workers[a].coll = CollA /\ workers[a].pc = "done" /\ workers[a].count = 3
       /\ workers[b].coll = CollB /\ workers[b].pc = "failed"
       /\ workers[c].coll = CollC /\ workers[c].pc = "done" /\ workers[c].count = 1
  /\ Cardinality(DocsOf(target, CollA)) = 3
  /\ Cardinality(DocsOf(target, CollC)) = 1
  /\ DocsOf(target, CollB) = {}

\* The bulk inserts a file of n documents gives: n \div BatchSize of size
\* BatchSize, then one of the rest if there is a rest.
ExpectedCalls(n) ==
  [k \in 1..(n \div BatchSize) |-> BatchSize]
    \o (IF n % BatchSize = 0 THEN <<>> ELSE <<n % BatchSize>>)

\* C3: batch flush boundary on restore.  A task that ends done for a file
\* of N documents that parse issued exactly ceil(N / BatchSize) bulk inserts,
\* all of size BatchSize but the last, which holds the rest; N = BatchSize + 1
\* gives two, of sizes BatchSize and 1, and N = 0 gives none.
C3_BatchFlushBoundary ==
  op.kind = "restore" =>
    \A i \in 1..Len(workers) :
      workers[i].pc = "done" =>
        LET n == Cardinality(ParsedLines(files[workers[i].path]))
            calls == workers[i].calls
        IN  /\ calls = ExpectedCalls(n)
            /\ Len(calls) * BatchSize >= n
            /\ (Len(calls) - 1) * BatchSize < n \/ n = 0
            /\ \A k \in 1..Len(calls) - 1 : calls[k] = BatchSize
            /\ n = BatchSize + 1 => calls = <<BatchSize, 1>>
            /\ n = 0 => calls = <<>>

\* C3 witness: a file of BatchSize + 1 documents gave two bulk inserts.
C3_Witness ==
  /\ op.kind = "restore"
  /\ \E i \in 1..Len(workers) :
       /\ workers[i].pc = "done"
       /\ Cardinality(ParsedLines(files[workers[i].path])) = BatchSize + 1
       /\ workers[i].calls = <<BatchSize, 1>>

\* C5: the Stats exception.  Of two backups at different times that both
\* list Stats, an ordinary collection is written to two different paths, one
\* in each dated folder, Stats both times to the one path <root>/Stats.gz,
\* and once the second has returned Stats.gz holds exactly the Stats
\* documents (that serialize) of the second run, finalized.
C5_StatsException ==
  (/\ Returned("backup")
   /\ prev.kind = "backup"
   /\ prev.result = "ok"
   /\ prev.folder # op.folder
   /\ StatsName \in DOMAIN source
   /\ \E x \in prev.paths : x[1] = StatsName)
  => LET stats == BackupFolder \o <<GzFileName(StatsName)>>
         now == {<<workers[i].coll, workers[i].path>> : i \in 1..Len(workers)}
     IN  /\ <<StatsName, stats>> \in prev.paths
         /\ <<StatsName, stats>> \in now
         /\ \A x \in prev.paths, y \in now :
              (x[1] = StatsName /\ y[1] = StatsName) => x[2] = y[2]
         /\ \A x \in prev.paths, y \in now :
              (x[1] # StatsName \/ y[1] # StatsName) => x[2] # y[2]
         /\ \A y \in now : y[1] # StatsName => Parent(y[2]) = op.folder
         /\ \A x \in prev.paths : x[1] # StatsName => Parent(x[2]) = prev.folder
         /\ stats \in DOMAIN files
         /\ files[stats].gz = "closed"
         /\ {files[stats].lines[j] : j \in 1..Len(files[stats].lines)}
              = JsonForms(source[StatsName])
         /\ Len(files[stats].lines) = Cardinality(Serializable(source[StatsName]))

\* C5 witness: DbTwo was backed up after another database at another time;
\* Stats.gz holds the one Stats document of DbTwo that serializes.
C5_Witness ==
  /\ Returned("backup")
  /\ prev.kind = "backup"
  /\ prev.result = "ok"
  /\ prev.folder # op.folder
  /\ source = DbTwo
  /\ <<StatsName, BackupFolder \o <<GzFileName(StatsName)>>>> \in prev.paths
  /\ \E x \in prev.paths : x[1] = CollA
  /\ files[BackupFolder \o <<GzFileName(StatsName)>>] = File(<<JsonLine(11, 2)>>, "closed")

\* Every document the target held when the call started is still there,
\* unchanged.
TargetKept == \A c \in DOMAIN target0 : target0[c] \subseteq DocsOf(target, c)

\* C6: copy is additive.  In every state of a copy, every document the
\* target held before is still there unchanged; and a copy that no failure
\* hit adds the documents of the source, so that X with 5 documents copied
\* onto an X with 2 unrelated documents ends with 7.
C6_CopyAdditive ==
  op.kind = "copy" =>
    /\ TargetKept
    /\ (op.phase = "returned" /\ op.result = "ok"
        /\ \A i \in 1..Len(workers) : ~workers[i].faulted)
         => \A c \in DOMAIN source :
              DocsOf(target, c) = DocsOf(target0, c) \cup source[c]

\* C6 witness: X with 5 documents was copied onto X with 2: it holds 7.
C6_Witness ==
  /\ Returned("copy")
  /\ source = DbX
  /\ target0 = TargetOld
  /\ Cardinality(source[CollX]) = 5
  /\ Cardinality(target0[CollX]) = 2
  /\ Cardinality(target[CollX]) = 7

\* C7: restore is strictly additive.  In every state of a restore, with or
\* without failures, into an empty or a non-empty target, every document
\* the target held before is still there unchanged: nothing is deleted,
\* replaced or merged.
C7_RestoreAdditive == op.kind = "restore" => TargetKept

\* C7 witness: a restore into the non-empty target inserted documents into
\* A, where the document with the _id of a restored one is kept as it was,
\* while another task failed.
C7_Witness ==
  /\ Returned("restore")
  /\ target0 = TargetOld
  /\ \E i \in 1..Len(workers) : workers[i].pc = "failed"
  /\ Doc(1, "int32", 99) \in target[CollA]
  /\ Cardinality(target[CollA]) = 3
  /\ target[CollX] = target0[CollX]

\* C8: once the tasks were spawned, the call returns Ok whatever their
\* outcomes; the result is only set by the return.
C8_OverallSuccess ==
  /\ op.phase \in {"spawned", "joined"} => op.result = "none"
  /\ (op.phase = "returned" /\ workers # <<>>) => op.result = "ok"

\* C8 witness: a call returned Ok although none of its tasks ended done.
C8_Witness ==
  /\ op.phase = "returned"
  /\ op.result = "ok"
  /\ workers # <<>>
  /\ \A i \in 1..Len(workers) : workers[i].pc \in {"failed", "panicked"}

\* What the task of worker w leaves when no failure hits it.
BackupComplete(w) ==
  /\ w.pc = "done"
  /\ w.count = Cardinality(source[w.coll])
  /\ w.path \in DOMAIN files
  /\ files[w.path].gz = "closed"
  /\ {files[w.path].lines[j] : j \in 1..Len(files[w.path].lines)}
       = JsonForms(source[w.coll])
  /\ Len(files[w.path].lines) = Cardinality(source[w.coll])

\* The documents of the files restored into collection coll (Stats has two
\* when the restore folder holds a Stats.gz of its own).
FilesDocs(coll) ==
  UNION {FileDocs(files[workers[i].path]) :
           i \in {j \in 1..Len(workers) : /\ workers[j].coll = coll
                                          /\ workers[j].path \in DOMAIN files}}

RestoreComplete(w) ==
  /\ w.pc = "done"
  /\ w.count = Cardinality(ParsedLines(files[w.path]))
  /\ FileDocs(files[w.path]) \subseteq DocsOf(target, w.coll)
  /\ DocsOf(target, w.coll) \subseteq DocsOf(target0, w.coll) \cup FilesDocs(w.coll)

CopyComplete(w) ==
  /\ w.pc = "done"
  /\ w.count = Cardinality(source[w.coll])
  /\ DocsOf(target, w.coll) = DocsOf(target0, w.coll) \cup source[w.coll]

\* C9: sibling isolation.  In backup, restore and copy, a task that no
\* failure of its own hit leaves, once the call has returned, the complete
\* file (backup) or the complete set of inserted documents (restore, copy)
\* that its own input determines, whether or not another task failed.
C9_SiblingIsolation ==
  op.phase = "returned" =>
    \A y \in 1..Len(workers) :
      ~workers[y].faulted =>
        /\ op.kind = "backup" => BackupComplete(workers[y])
        /\ op.kind = "restore" => RestoreComplete(workers[y])
        /\ op.kind = "copy" => CopyComplete(workers[y])

\* C9 witness: in a backup the task of one collection failed and the task
\* of another left its complete, finalized file.
C9_Witness ==
  /\ Returned("backup")
  /\ \E x, y \in 1..Len(workers) :
       /\ workers[x].pc = "failed"
       /\ workers[x].coll # workers[y].coll
       /\ ~workers[y].faulted
       /\ source[workers[y].coll] # {}
       /\ BackupComplete(workers[y])

\* The subdirectories of directory d, by name.
SubdirNames(d) == {FileName(p) : p \in {q \in dirs : Len(q) = Len(d) + 1 /\ q \in Entries(dirs, files, d)}}

\* The path an explicit restore folder stands for: itself when absolute,
\* else the root followed by it ("." standing for the root itself).
ExplicitFolder(root, path) ==
  IF Head(path) = RootDirC THEN path
  ELSE IF path = <<CurDirC>> THEN root
  ELSE root \o path

\* C10: restore folder resolution.  With an explicit folder the effective
\* folder is that folder, joined to the root if relative, whatever the
\* newest subfolder is; without, it is the subfolder of the root with the
\* greatest name; and when the effective folder is no directory (as when
\* the root has no subfolder), restore fails as a whole: it returns Err,
\* spawns no task and inserts nothing.
C10_FolderResolution ==
  op.kind = "restore" =>
    /\ op.arg.some => op.folder = ExplicitFolder(op.root, op.arg.path)
    /\ (~op.arg.some /\ SubdirNames(op.root) # {})
         => /\ Parent(op.folder) = op.root
            /\ FileName(op.folder) \in SubdirNames(op.root)
            /\ \A n \in SubdirNames(op.root) :
                 n = FileName(op.folder) \/ LexLess(n, FileName(op.folder))
    /\ (~op.arg.some /\ SubdirNames(op.root) = {}) => op.folder \notin dirs
    /\ op.folder \notin dirs
         => /\ op.phase = "returned"
            /\ op.result = "err"
            /\ workers = <<>>
            /\ target = target0

\* C10 witness: restore without explicit folder on a root that has no
\* subfolder failed as a whole.
C10_Witness ==
  /\ op.kind = "restore"
  /\ ~op.arg.some
  /\ op.root = OtherFolder
  /\ SubdirNames(op.root) = {}
  /\ op.root \o <<GzFileName(StatsName)>> \in DOMAIN files
  /\ target0 = TargetOld
  /\ target = target0
  /\ op.result = "err"
  /\ workers = <<>>
  /\ faultsLeft = MaxFaults

\* The dated folders under the backups folder.
DatedDirs == {d \in dirs : Len(d) = Len(BackupFolder) + 1 /\ Parent(d) = BackupFolder}

\* The dated folder of the last backup: the clock shows the instant of the
\* last backup as long as a backup ran.
LastBackupFolder == BackupFolder \o <<FormatTime(Times[clock])>>

\* C11: the greatest name is the newest folder.  After backups into the same
\* root at instants that never decrease, a restore without explicit folder
\* reads the dated folder the last of these backups created.
C11_LatestIsLastBackup ==
  (/\ op.kind = "restore"
   /\ op.root = BackupFolder
   /\ ~op.arg.some
   /\ DatedDirs # {})
  => /\ op.folder = LastBackupFolder
     /\ op.folder \in DatedDirs
     /\ prev.kind = "backup" => op.folder = prev.folder
     /\ op.phase = "returned" => op.result = "ok"

\* C11 witness: two backups, the second in the year after the first, then
\* a restore of the second's folder.
C11_Witness ==
  /\ Returned("restore")
  /\ ~op.arg.some
  /\ prev.kind = "backup"
  /\ Cardinality(DatedDirs) >= 2
  /\ BackupFolder \o <<FormatTime(Times[1])>> \in DatedDirs
  /\ clock >= 2
  /\ op.folder = prev.folder
  /\ op.folder = LastBackupFolder

\* ".gz"
DotGz == <<46, 103, 122>>

\* What is directly inside folder d, files and folders.
Inside(d) == {p \in (DOMAIN files) \cup dirs : Len(p) = Len(d) + 1 /\ Parent(p) = d}

EndsInGz(name) ==
  /\ Len(name) >= Len(DotGz)
  /\ SubSeq(name, Len(name) - Len(DotGz) + 1, Len(name)) = DotGz

\* The pairs after the first, as a set.
DatedPairs == {<<workers[i].coll, workers[i].path>> : i \in 2..Len(workers)}

\* C12: the restore file list.  The tasks of a restore are spawned one per
\* pair of the list: the first pair is (Stats, <root>/Stats.gz), from the
\* root and not from the restore folder, and the others are exactly one
\* pair (c, entry) per entry directly inside the restore folder whose name is
\* c followed by ".gz"; an entry with another name gives no pair.
C12_RestoreFileList ==
  (op.kind = "restore" /\ workers # <<>>) =>
    /\ workers[1].coll = StatsName
    /\ workers[1].path = op.root \o <<StatsName \o DotGz>>
    /\ DatedPairs
         = {<<SubSeq(FileName(p), 1, Len(FileName(p)) - Len(DotGz)), p>> :
              p \in {q \in Inside(op.folder) : EndsInGz(FileName(q))}}
    /\ Len(workers) - 1 = Cardinality(DatedPairs)
    /\ \A p \in Inside(op.folder) :
         ~EndsInGz(FileName(p)) => \A i \in 2..Len(workers) : workers[i].path # p

\* C12 witness: the dated folder holds A.gz, B.gz, C.gz and a file r: the
\* list is Stats from the root, then A, B and C.
C12_Witness ==
  /\ op.kind = "restore"
  /\ op.folder = OldDated
  /\ Len(workers) = 4
  /\ workers[1].path = BackupFolder \o <<GzFileName(StatsName)>>
  /\ {workers[i].coll : i \in 2..4} = {CollA, CollB, CollC}
  /\ OldDated \o <<<<114>>>> \in Inside(op.folder)
  /\ \A i \in 1..4 : workers[i].path # OldDated \o <<<<114>>>>

\* The call touched neither the disk's files nor the target database, and
\* spawned no task.  (Spec makes one call, on the disk OldFiles.)
NothingDone ==
  /\ op.phase = "returned"
  /\ op.result = "err"
  /\ workers = <<>>
  /\ files = OldFiles
  /\ target = target0

\* C13: a folder error is fatal to the whole call.  A backup whose dated
\* folder could not be created returns Err, spawns no task and creates or
\* removes no file, Stats.gz included; a restore whose restore folder could
\* not be read returns Err and inserts nothing.  A call that returns Err
\* never did anything to the files or to the target.
C13_FolderErrorFatal ==
  /\ (op.kind = "backup" /\ op.folder \notin dirs) => (NothingDone /\ dirs = OldDirs)
  /\ (op.kind = "backup" /\ op.result = "err") => NothingDone
  /\ (op.kind = "restore" /\ op.folder \notin dirs) => (NothingDone /\ dirs = OldDirs)
  /\ (op.kind = "restore" /\ op.result = "err") => (NothingDone /\ dirs = OldDirs)

\* C13 witness: backup could not create its dated folder; the Stats.gz of
\* the older backup is as it was.
C13_Witness ==
  /\ op.kind = "backup"
  /\ op.result = "err"
  /\ op.folder \notin dirs
  /\ faultsLeft = MaxFaults - 1
  /\ StatsName \in DOMAIN source
  /\ files[BackupFolder \o <<GzFileName(StatsName)>>] = File(<<JsonLine(10, 0)>>, "closed")

\* Task i issued a bulk insert in this step and the insert failed: its list
\* of calls grew and a failure hit it.
InsertFailed(i) ==
  /\ Len(workers') = Len(workers)
  /\ i \in 1..Len(workers)
  /\ Len(workers'[i].calls) = Len(workers[i].calls) + 1
  /\ workers'[i].faulted
  /\ ~workers[i].faulted

\* C14: a driver error is fatal to the rest of the task.  In restore and
\* copy, a task whose bulk insert fails, be it a full batch in mid-stream or
\* the last, partial one, ends failed with that step, so that it issues no
\* further bulk insert.  The code does not do this for a full batch in
\* mid-stream: restore.rs:77-86 and copy.rs:39-48 log the error, clear the
\* buffer and go on.
C14_DriverErrorFatal ==
  [][op.kind \in {"restore", "copy"} =>
       \A i \in 1..Len(workers) :
         InsertFailed(i) => workers'[i].pc = "failed"]_vars

\* C14, what was seen: a restore task whose first bulk insert failed went
\* on, issued a second one and ended done.
C14_Witness ==
  /\ Returned("restore")
  /\ target0 = EmptyDb
  /\ \E i \in 1..Len(workers) :
       /\ workers[i].coll = CollX
       /\ workers[i].pc = "done"
       /\ workers[i].faulted
       /\ workers[i].calls = <<BatchSize, BatchSize>>
       /\ workers[i].count = 2 * BatchSize
       /\ Cardinality(DocsOf(target, CollX)) = BatchSize

\* Backup task i took a document that serializes from its cursor in this
\* step and the line did not reach the file: writer.send(str) failed.
WriteFailed(i) ==
  /\ Len(workers') = Len(workers)
  /\ i \in 1..Len(workers)
  /\ workers[i].pc = "stream"
  /\ workers[i].cursor # <<>>
  /\ ToJsonOk(Head(workers[i].cursor))
  /\ workers'[i].count = workers[i].count + 1
  /\ files'[workers[i].path] = files[workers[i].path]

\* C15: a file error is fatal to the task of that collection, and to it
\* only.  A backup task whose write of a document line fails ends failed
\* with that step and takes no further document.  The code does not do
\* this: backup.rs:76-82 logs the error of writer.send(str) and goes on.
C15_FileErrorFatal ==
  [][op.kind = "backup" =>
       \A i \in 1..Len(workers) :
         WriteFailed(i) => workers'[i].pc = "failed"]_vars

\* C15, what was seen: a backup task that lost a line to a failed write
\* took the documents after it, finalized its file and ended done.
C15_Witness ==
  /\ Returned("backup")
  /\ source = DbOne
  /\ \E i \in 1..Len(workers) :
       /\ workers[i].coll = CollA
       /\ workers[i].pc = "done"
       /\ workers[i].faulted
       /\ workers[i].count = 3
       /\ \A d \in source[CollA] : ToJsonOk(d)
       /\ files[workers[i].path].gz = "closed"
       /\ Len(files[workers[i].path].lines) = 2
       /\ files[workers[i].path].lines[2] = ToJson(Doc(3, "int32", -1))

\* The lines of a file that are not empty and do not parse.
BadLines(f) == {j \in 1..Len(f.lines) : f.lines[j].kind = "garbage"}

\* The documents of a collection that do not serialize.
BadDocs(docs) == {d \in docs : d.ty = "invalid"}

\* C16: a codec error skips the failing record only.  Where nothing else
\* fails, a backup task writes a line for every document of its cursor but
\* those that do not serialize and ends done, and a restore task inserts
\* the document of every line of its file but the empty ones and those that
\* do not parse and ends done: with no fault injected, into an empty
\* database, the task of every well-formed gzip file ends done, lines that
\* do not parse or not.
C16_CodecErrorSkips ==
  /\ (op.kind = "backup" /\ op.phase = "returned" /\ op.result = "ok"
      /\ faultsLeft = MaxFaults)
       => \A i \in 1..Len(workers) :
            LET w == workers[i]
                good == source[w.coll] \ BadDocs(source[w.coll])
            IN  /\ w.pc = "done"
                /\ w.count = Cardinality(source[w.coll])
                /\ files[w.path].gz = "closed"
                /\ Len(files[w.path].lines) = Cardinality(good)
                /\ \A d \in good :
                     \E j \in 1..Len(files[w.path].lines) :
                       /\ files[w.path].lines[j].kind = "json"
                       /\ files[w.path].lines[j].id = d.id
                       /\ files[w.path].lines[j].num = d.num
  /\ (op.kind = "restore" /\ op.phase = "returned" /\ op.result = "ok")
       => \A i \in 1..Len(workers) :
            LET w == workers[i]
            IN  ~w.faulted =>
                  /\ w.pc = "done"
                  /\ w.count = Len(files[w.path].lines)
                                 - Cardinality(BadLines(files[w.path]))
                                 - Cardinality({j \in 1..Len(files[w.path].lines) :
                                                  files[w.path].lines[j].kind = "blank"})
                  /\ \A j \in 1..Len(files[w.path].lines) :
                       files[w.path].lines[j].kind = "json" =>
                         \E d \in DocsOf(target, w.coll) :
                           d.id = files[w.path].lines[j].id
                             /\ d.num = files[w.path].lines[j].num
  /\ (op.kind = "restore" /\ op.phase = "returned" /\ op.result = "ok"
      /\ faultsLeft = MaxFaults /\ target0 = EmptyDb)
       => \A i \in 1..Len(workers) :
            (/\ workers[i].path \in DOMAIN files
             /\ files[workers[i].path].gz = "closed"
             /\ \A j \in 1..Len(workers) :
                  j # i => workers[j].coll # workers[i].coll)
            => (workers[i].pc = "done" /\ ~workers[i].faulted)

\* C16 witness: the file of A holds a line that does not parse between
\* lines that do; its task ended done with the 3 documents inserted.
C16_Witness ==
  /\ Returned("restore")
  /\ op.folder = OldDated
  /\ target0 = EmptyDb
  /\ \E i \in 1..Len(workers) :
       /\ workers[i].coll = CollA
       /\ BadLines(files[workers[i].path]) = {4}
       /\ ~workers[i].faulted
       /\ workers[i].pc = "done"
       /\ workers[i].count = 3
  /\ {d.id : d \in DocsOf(target, CollA)} = {1, 2, 3}

\* The steps of backup task i keep the order flush, shutdown, outcome, and
\* write no line once the writer was flushed.
FinalizationSteps(i) ==
  /\ (workers'[i].pc = "done" /\ workers[i].pc # "done") => workers[i].pc = "shutdown"
  /\ (workers'[i].pc = "shutdown" /\ workers[i].pc # "shutdown")
       => (workers[i].pc = "flush" /\ workers[i].cursor = <<>>)
  /\ workers[i].pc \in {"shutdown", "done"}
       => files'[workers[i].path].lines = files[workers[i].path].lines

\* The task that ends done in this step leaves a finalized stream.
DoneIsFinalized(i) ==
  (workers'[i].pc = "done" /\ workers[i].pc # "done")
    => files'[workers[i].path].gz = "closed"

\* C17: finalization order of backup.  A task whose cursor is exhausted
\* flushes the writer, then shuts the compression stream down, then reports
\* its outcome; no line is written after the flush, and no task ends done
\* for a file whose stream was not finalized.  The code keeps the order but
\* not the last part: backup.rs:92-101 logs the error of shutdown() and
\* ends with Ok(count).
C17_FinalizationOrder ==
  [][(op.kind = "backup" /\ op'.kind = "backup" /\ Len(workers') = Len(workers)) =>
       \A i \in 1..Len(workers) :
         FinalizationSteps(i) /\ DoneIsFinalized(i)]_vars

\* C17, what was seen: a backup task ended done, and the call returned Ok,
\* with the stream of its file not finalized.
C17_Witness ==
  /\ Returned("backup")
  /\ \E i \in 1..Len(workers) :
       /\ workers[i].pc = "done"
       /\ workers[i].count = Cardinality(source[workers[i].coll])
       /\ workers[i].count > 0
       /\ Len(files[workers[i].path].lines) = workers[i].count
       /\ files[workers[i].path].gz = "open"

\* The positions at which resolve() holds the lock of its method.
Holding == {"update", "command", "read_dir", "entries", "finalize"}

Holders(kind) ==
  {p \in RequestIds : requests[p].kind = kind /\ requests[p].pc \in Holding}

\* At most one invocation of a method holds its lock, the lock knows which,
\* and an invocation by a user who is no admin never came to the lock.
LockState ==
  /\ \A kind \in {BackupCoreDatabase, ClearRepoCache} :
       /\ Cardinality(Holders(kind)) <= 1
       /\ Holders(kind) = {p \in RequestIds : LockOf(kind) = p}
  /\ \A p \in RequestIds :
       ~requests[p].admin =>
         /\ requests[p].pc \in {"none", "admin", "returned"}
         /\ requests[p].result \in {"none", "unauthorized"}
         /\ requests[p].pc = "returned" => requests[p].result = "unauthorized"

\* What invocation p does at the lock: with the lock of its own method
\* held it returns Err in that very step, without the lock; else it takes
\* the lock.  The lock of the other method plays no part.  There is no
\* other way to the positions that hold the lock.
LockStep(p) ==
  LET kind == requests[p].kind
      held == IF kind = BackupCoreDatabase THEN backup_database_lock # 0
              ELSE clear_repo_cache_lock # 0
  IN  /\ (requests[p].pc = "try_lock" /\ requests'[p].pc # "try_lock") =>
           IF held
           THEN /\ requests'[p].pc = "returned"
                /\ requests'[p].result = "busy"
                /\ backup_database_lock' = backup_database_lock
                /\ clear_repo_cache_lock' = clear_repo_cache_lock
           ELSE /\ requests'[p].pc \in Holding
                /\ IF kind = BackupCoreDatabase
                   THEN backup_database_lock' = p
                        /\ clear_repo_cache_lock' = clear_repo_cache_lock
                   ELSE clear_repo_cache_lock' = p
                        /\ backup_database_lock' = backup_database_lock
      /\ (requests'[p].pc \in Holding /\ requests[p].pc \notin Holding) =>
           (requests[p].pc = "try_lock" /\ ~held /\ requests[p].admin)
      /\ requests[p].result = "busy" =>
           (requests'[p].pc = "returned" /\ requests'[p].result = "busy")

\* C18: BackupCoreDatabase runs once at a time.  At most one invocation
\* holds the backup lock; one that arrives while another holds it returns an
\* error at once, without waiting and without starting a backup; the same
\* holds for ClearRepoCache with its own lock, independently; and a user who
\* is no admin is rejected before the lock is tried.
C18_OnceAtATime ==
  [][LockState /\ LockState' /\ \A p \in RequestIds : LockStep(p)]_vars

\* C18 witness: a backup and a clear are in progress together, each with
\* its lock, and a second backup was turned away.
C18_Witness ==
  /\ \E p, q, r \in RequestIds :
       /\ requests[p].kind = BackupCoreDatabase /\ requests[p].pc = "command"
       /\ requests[q].kind = ClearRepoCache /\ requests[q].pc = "entries"
       /\ requests[r].kind = BackupCoreDatabase /\ requests[r].result = "busy"
       /\ backup_database_lock = p
       /\ clear_repo_cache_lock = q

\* The phases of a call in their order; a call whose folder-level steps fail
\* returns Err without spawning.
PhaseStep ==
  op'.phase # op.phase =>
    \/ /\ op.phase \in {"idle", "returned"}
       /\ op'.phase = "spawned"
       /\ op'.result = "none"
       /\ joined' = 0
       /\ \A i \in 1..Len(workers') : workers'[i].pc \notin Terminal
    \/ /\ op.phase \in {"idle", "returned"}
       /\ op'.phase = "returned"
       /\ op'.result = "err"
       /\ workers' = <<>>
    \/ /\ op.phase = "spawned"
       /\ op'.phase = "joined"
       /\ workers' = workers
    \/ /\ op.phase = "joined"
       /\ op'.phase = "returned"
       /\ op'.result = "ok"
       /\ workers' = workers

\* Every spawned task has ended and its outcome was collected.
AllJoined ==
  /\ joined = Len(workers)
  /\ \A i \in 1..Len(workers) : workers[i].pc \in Terminal

\* One task per collection listed (backup, copy) or per pair of the restore
\* file list (restore).
OnePerCollection ==
  /\ op.kind \in {"backup", "copy"} =>
       /\ Len(workers) = Cardinality(DOMAIN source)
       /\ {workers[i].coll : i \in 1..Len(workers)} = DOMAIN source
  /\ op.kind = "restore" =>
       Len(workers) = 1 + Cardinality({p \in Inside(op.folder) : EndsInGz(FileName(p))})

Barrier ==
  /\ op.phase \in {"joined", "returned"} => AllJoined
  /\ (op.phase \in {"spawned", "joined"} \/ op.result = "ok") => OnePerCollection
  /\ joined <= Cardinality({i \in 1..Len(workers) : workers[i].pc \in Terminal})

\* C19: join barrier and order of a call.  A call goes from started to all
\* tasks spawned, to joined, to returned, in this order; the driver leaves
\* the join loop and returns only when every spawned task has ended, done or
\* failed, and there is one task per collection listed (backup, copy) or per
\* pair of the restore file list (restore); the tasks are all spawned in the
\* step that lists them and none is added later.
C19_JoinBarrier ==
  [][/\ PhaseStep
     /\ Barrier
     /\ Barrier'
     /\ (op.phase = "spawned" /\ op'.kind = op.kind /\ op'.phase # "returned")
          => Len(workers') = Len(workers)]_vars

\* C19 witness: a copy of two collections returned after both tasks had
\* ended, one done and one failed.
C19_Witness ==
  /\ Returned("copy")
  /\ Cardinality(DOMAIN source) = 2
  /\ Len(workers) = 2
  /\ joined = 2
  /\ \E i, j \in 1..2 : workers[i].pc = "done" /\ workers[j].pc = "failed"

\* The state of a task in the state model: before its stream is open it is
\* pending (the file is removed and created and the cursor opened, or the
\* file opened), then it streams, then it flushes (flush and shutdown of
\* the writer, or the insert of what is left in the buffer), then it is done;
\* an error or a panic makes it failed.
WorkerState(w) ==
  CASE w.pc \in {"remove", "create", "find", "open"} -> "Pending"
    [] w.pc = "stream" -> "Streaming"
    [] w.pc \in {"flush", "shutdown", "final"} -> "Flushing"
    [] w.pc = "done" -> "Done"
    [] w.pc \in {"failed", "panicked"} -> "Failed"

\* The moves of the state model; a task can fail from every state it has
\* not ended in.
WorkerMoves ==
  {<<"Pending", "Streaming">>, <<"Streaming", "Flushing">>,
   <<"Flushing", "Done">>, <<"Pending", "Failed">>,
   <<"Streaming", "Failed">>, <<"Flushing", "Failed">>}

\* The step is one of the call in progress: the tasks are the same.
SameCall == op.phase # "idle" /\ op'.kind = op.kind /\ Len(workers') = Len(workers)
              /\ ~(op.phase = "returned" /\ op'.phase # "returned")

\* C20: the state model of a task.  A task is spawned pending and moves
\* only along Pending -> Streaming -> Flushing -> Done, or to Failed; Done
\* and Failed are never left, and Done is entered from Flushing only.
C20_WorkerStateModel ==
  [][/\ SameCall =>
          \A i \in 1..Len(workers) :
            \/ WorkerState(workers'[i]) = WorkerState(workers[i])
            \/ <<WorkerState(workers[i]), WorkerState(workers'[i])>> \in WorkerMoves
     /\ (op'.phase = "spawned" /\ op.phase # "spawned") =>
          \A i \in 1..Len(workers') : WorkerState(workers'[i]) = "Pending"]_vars

\* C20 witness: of the tasks of a restore one is done, one failed, and one
\* is flushing after it streamed two documents.
C20_Witness ==
  /\ op.kind = "restore"
  /\ op.phase = "spawned"
  /\ \E i, j, k \in 1..Len(workers) :
       /\ WorkerState(workers[i]) = "Done"
       /\ WorkerState(workers[j]) = "Failed"
       /\ WorkerState(workers[k]) = "Flushing"
       /\ workers[k].count >= 2


\* ---------------------------------------------------------------------- C21

\* Whether every task of the call ended (Ok, Err, or a panic).
AllEnded == \A i \in 1..Len(workers) : workers[i].pc \in Terminal

\* C21: under weak fairness of the task steps and of the driver steps, a call
\* of backup, restore or copy that spawned its tasks leads to a state where
\* every task has ended and the call has returned.
C21_Termination ==
  (op.phase = "spawned") ~> (AllEnded /\ op.phase = "returned")

\* A call that returned after more than one task ran, one of them to Err.
C21_Witness ==
  /\ op.phase = "returned"
  /\ Len(workers) > 1
  /\ AllEnded
  /\ \E i \in 1..Len(workers) : workers[i].pc = "failed"
  /\ \E i \in 1..Len(workers) : workers[i].pc = "done"


\* ---------------------------------------------------------------------- C22

\* The tasks that panicked.
Panicked == {i \in 1..Len(workers) : workers[i].pc = "panicked"}

\* The step in which task i panics.
PanicStep(i) ==
  /\ i \in 1..Len(workers)
  /\ Len(workers') = Len(workers)
  /\ workers[i].pc \notin Terminal
  /\ workers'[i].pc = "panicked"

\* A call that returned although a task panicked: it returned Ok, every
\* outcome was collected, and every task that no failure hit ran to its end.
PanicSurvived ==
  (op.phase = "returned" /\ Panicked # {}) =>
     /\ op.result = "ok"
     /\ joined = Len(workers)
     /\ \A j \in 1..Len(workers) :
          ~workers[j].faulted => /\ workers[j].pc = "done"
                                 /\ op.kind = "backup" => BackupComplete(workers[j])

\* C22: a panic of a task is caught at the join point.  The step in which a
\* task panics changes no other task, not the driver and nothing the call
\* writes; the driver leaves the join loop only after the outcome of every
\* task, the panicked one included, was collected; no task is cancelled (a
\* task that no failure hit ends done, with its complete file); and the call
\* returns Ok.
C22_PanicCaught ==
  [][/\ \A i \in 1..Len(workers) :
          PanicStep(i) =>
            /\ \A j \in 1..Len(workers) : j # i => workers'[j] = workers[j]
            /\ op' = op
            /\ joined' = joined
            /\ files' = files
            /\ target' = target
     /\ (Panicked # {} /\ op.phase \in {"joined", "returned"}) => AllJoined
     /\ PanicSurvived']_vars

\* C22 witness: a backup returned Ok after one task panicked and another
\* ended done with its complete file.
C22_Witness ==
  /\ op.kind = "backup"
  /\ op.phase = "returned"
  /\ op.result = "ok"
  /\ Panicked # {}
  /\ \E j \in 1..Len(workers) : BackupComplete(workers[j])


\* ---------------------------------------------------------------------- C23

RECURSIVE SumSeq(_)
SumSeq(s) == IF s = <<>> THEN 0 ELSE Head(s) + SumSeq(Tail(s))

\* The document task w reads next: the parsed line (restore) or the
\* document the cursor delivers (copy).
Delivered(w) ==
  IF op.kind = "restore" THEN FromJson(Head(w.cursor)) ELSE Head(w.cursor)

\* Every document read so far is in the buffer or was part of one call.
SubmittedOnce(w) ==
  /\ w.pc \in {"stream", "final"} => SumSeq(w.calls) + Len(w.buffer) = w.count
  /\ w.pc \in Terminal => SumSeq(w.calls) <= w.count
  /\ w.pc = "done" => SumSeq(w.calls) = w.count

\* A step of task i, reading or inserting: the input only shrinks from its
\* head, the buffer takes nothing but the document just read, and a call
\* takes the whole buffer and leaves it empty, whether it failed or not.
NoRetryStep(i) ==
  LET w == workers[i]
      v == workers'[i]
  IN  (w.pc \in {"stream", "final"} /\ v # w) =>
        /\ v.cursor \in {w.cursor, <<>>} \/ v.cursor = Tail(w.cursor)
        /\ v.buffer # <<>> =>
             /\ v.calls = w.calls
             /\ \/ v.buffer = w.buffer
                \/ /\ w.cursor # <<>>
                   /\ v.cursor = Tail(w.cursor)
                   /\ v.buffer = Append(w.buffer, Delivered(w))
        /\ v.calls # w.calls =>
             /\ v.buffer = <<>>
             /\ \/ /\ w.pc = "stream"
                   /\ w.cursor # <<>>
                   /\ v.cursor = Tail(w.cursor)
                   /\ v.calls = Append(w.calls, Len(w.buffer) + 1)
                \/ /\ w.pc = "final"
                   /\ v.calls = Append(w.calls, Len(w.buffer))

\* C23: a failed batch is not retried.  In restore and copy every document
\* read is pushed to the buffer once and the buffer is handed to one bulk
\* insert and cleared, whether that call fails or not: the sizes of the calls
\* of a task add up to the documents it read and still holds none of, never
\* to more, and to all of them when the task ends done.
C23_NoRetry ==
  [][op.kind \in {"restore", "copy"} /\ op'.kind = op.kind
       /\ Len(workers') = Len(workers) =>
       \A i \in 1..Len(workers) :
         /\ NoRetryStep(i)
         /\ SubmittedOnce(workers[i])
         /\ SubmittedOnce(workers'[i])]_vars

\* C23 witness: a task whose mid-stream insert failed went on and ended done
\* with a second, smaller call; the calls add up to the documents read.
C23_Witness ==
  /\ op.kind \in {"restore", "copy"}
  /\ \E i \in 1..Len(workers) :
       /\ workers[i].pc = "done"
       /\ workers[i].faulted
       /\ Len(workers[i].calls) >= 2
       /\ workers[i].calls[1] = BatchSize
       /\ SumSeq(workers[i].calls) = workers[i].count


\* ---------------------------------------------------------------------- C24

\* A turn of the loop of task i that pushes a document: the buffer with the
\* document holds at most BatchSize documents; when it holds BatchSize it is
\* handed to a bulk insert of that size and is empty after the turn.
PushStep(i) ==
  LET w == workers[i]
      v == workers'[i]
      pushed == Append(w.buffer, Delivered(w))
  IN  (w.pc = "stream" /\ v.count = w.count + 1) =>
        /\ Len(pushed) <= BatchSize
        /\ IF Len(pushed) = BatchSize
           THEN /\ v.buffer = <<>>
                /\ v.calls = Append(w.calls, BatchSize)
           ELSE /\ v.buffer = pushed
                /\ v.calls = w.calls

\* Task i ends done only from behind the loop, with an empty buffer or with
\* the buffer handed to the last bulk insert.
DoneStep(i) ==
  LET w == workers[i]
      v == workers'[i]
  IN  (w.pc # "done" /\ v.pc = "done") =>
        /\ w.pc = "final"
        /\ v.buffer = <<>>
        /\ \/ w.buffer = <<>> /\ v.calls = w.calls
           \/ v.calls = Append(w.calls, Len(w.buffer))

\* C24: bounded buffer.  Between the steps of a restore or copy task the
\* buffer holds fewer than BatchSize documents; the push that brings it to
\* BatchSize is followed at once, within the same turn of the loop, by the
\* bulk insert and the clearing, so it never holds more than BatchSize; and a
\* task ends done with the buffer empty or flushed by the last insert.
C24_BoundedBuffer ==
  [][op.kind \in {"restore", "copy"} /\ op'.kind = op.kind
       /\ Len(workers') = Len(workers) =>
       \A i \in 1..Len(workers) :
         /\ Len(workers[i].buffer) < BatchSize
         /\ Len(workers'[i].buffer) < BatchSize
         /\ PushStep(i)
         /\ DoneStep(i)]_vars

\* C24 witness: a task that filled and flushed the buffer holds BatchSize - 1
\* documents again.
C24_Witness ==
  /\ op.kind \in {"restore", "copy"}
  /\ \E i \in 1..Len(workers) :
       /\ workers[i].pc = "stream"
       /\ workers[i].calls # <<>>
       /\ Len(workers[i].buffer) = BatchSize - 1


\* ---------------------------------------------------------------------- C25

\* What task w writes to: its file (backup) or its target collection
\* (restore, copy).
Destination(w) == IF op.kind = "backup" THEN w.path ELSE w.coll

\* C25: worker isolation on targets.  In a call of backup, restore or copy no
\* two tasks have the same destination: every file (backup) and every target
\* collection (restore, copy) is written by at most one task of the call,
\* whatever the restore folder holds and whatever folder argument was given.
C25_WorkerIsolation ==
  \A i \in 1..Len(workers) : \A j \in 1..Len(workers) :
    i # j => Destination(workers[i]) # Destination(workers[j])

\* C25 witness: a restore in which two tasks inserted into the same
\* collection, each from a file of its own, and both ended done.
C25_Witness ==
  /\ op.kind = "restore"
  /\ \E i \in 1..Len(workers) : \E j \in 1..Len(workers) :
       /\ i # j
       /\ workers[i].coll = workers[j].coll
       /\ workers[i].path # workers[j].path
       /\ workers[i].pc = "done" /\ workers[i].calls # <<>>
       /\ workers[j].pc = "done" /\ workers[j].calls # <<>>
       /\ FileDocs(files[workers[i].path]) \cup FileDocs(files[workers[j].path])
            \subseteq DocsOf(target, workers[i].coll)


\* ---------------------------------------------------------------------- C26

\* The lines the documents of s that serialize are written as, in order.
RECURSIVE Serialized(_)
Serialized(s) ==
  IF s = <<>> THEN <<>>
  ELSE (IF ToJsonOk(Head(s)) THEN <<ToJson(Head(s))>> ELSE <<>>)
         \o Serialized(Tail(s))

\* Whether s is t with some elements left out, the order kept.
RECURSIVE IsSubSeq(_, _)
IsSubSeq(s, t) ==
  IF s = <<>> THEN TRUE
  ELSE IF t = <<>> THEN FALSE
  ELSE IF Head(s) = Head(t) THEN IsSubSeq(Tail(s), Tail(t))
  ELSE IsSubSeq(s, Tail(t))

\* The file of backup task w, written since the task created it, holds the
\* documents in an order the cursor can deliver them in: what was written,
\* followed by what is still to come, is the serialization of the whole
\* delivery, less the lines whose send failed; no line is there twice.
InCursorOrder(w) ==
  (w.pc \in {"find", "stream", "flush", "shutdown", "done"}
     /\ w.path \in DOMAIN files) =>
    LET lines == files[w.path].lines
    IN  /\ \A j \in 1..Len(lines) : \A k \in 1..Len(lines) :
             j # k => lines[j] # lines[k]
        /\ \E o \in CursorOrders(source[w.coll]) :
             /\ IsSubSeq(lines \o Serialized(w.cursor), Serialized(o))
             /\ ~w.faulted =>
                  /\ w.pc = "stream" =>
                       lines \o Serialized(w.cursor) = Serialized(o)
                  /\ w.pc \in {"flush", "shutdown", "done"} =>
                       lines = Serialized(o)

\* A step changes the file of backup task i only by appending the
\* serialization of the document at the head of its cursor, which the cursor
\* then no longer holds.
AppendsHead(i) ==
  LET w == workers[i]
      v == workers'[i]
  IN  (w.pc \in {"find", "stream", "flush", "shutdown"}
         /\ w.path \in DOMAIN files) =>
        /\ w.path \in DOMAIN files'
        /\ \/ files'[w.path].lines = files[w.path].lines
           \/ /\ w.pc = "stream"
              /\ w.cursor # <<>>
              /\ ToJsonOk(Head(w.cursor))
              /\ v.cursor = Tail(w.cursor)
              /\ files'[w.path].lines
                   = Append(files[w.path].lines, ToJson(Head(w.cursor)))

\* C26: export line order.  In the file of a collection, line i is the
\* serialization of the i-th document the cursor delivered among those that
\* were serialized and written: lines are only appended, each being the
\* document just delivered, and no document is reordered or written twice.
C26_LineOrder ==
  [][op.kind = "backup" /\ op'.kind = "backup"
       /\ Len(workers') = Len(workers) =>
       \A i \in 1..Len(workers) :
         /\ AppendsHead(i)
         /\ InCursorOrder(workers[i])
         /\ InCursorOrder(workers[i])']_vars

\* C26 witness: a backup task ended done with a file of three lines in
\* descending _id, the order its cursor delivered them in.
C26_Witness ==
  /\ op.kind = "backup"
  /\ \E i \in 1..Len(workers) :
       /\ workers[i].pc = "done"
       /\ ~workers[i].faulted
       /\ Len(files[workers[i].path].lines) = 3
       /\ files[workers[i].path].lines[1].id > files[workers[i].path].lines[2].id
       /\ files[workers[i].path].lines[2].id > files[workers[i].path].lines[3].id


\* ---------------------------------------------------------------------- C27

\* C27: restore never changes a snapshot.  The step that starts a restore
\* and every step while the call is a restore, up to and after its return,
\* leave every file and every directory as they were: the files keep their
\* lines and the state of their gzip stream, none is added or removed.
C27_RestoreReadOnly ==
  [][op'.kind = "restore" => files' = files /\ dirs' = dirs]_vars

\* C27 witness: a restore of the snapshot the backup before it wrote read
\* the files of the dated folder and Stats.gz to their end, inserted their
\* documents and returned; every file it read is there, closed.
C27_Witness ==
  /\ op.kind = "restore"
  /\ op.phase = "returned"
  /\ op.result = "ok"
  /\ prev.kind = "backup"
  /\ op.folder = prev.folder
  /\ target # target0
  /\ Len(workers) >= 2
  /\ \A i \in 1..Len(workers) :
       /\ workers[i].pc = "done"
       /\ workers[i].path \in DOMAIN files
       /\ files[workers[i].path].gz = "closed"
  /\ \E i \in 1..Len(workers) :
       workers[i].coll = StatsName /\ workers[i].count > 0
  /\ \E i \in 1..Len(workers) :
       workers[i].coll # StatsName /\ workers[i].count > 0

\* ---------------------------------------------------------------------- C28

\* Whether the next turn of the loop of task w delivers a document: the
\* cursor has one (copy), the file has a line and it parses (restore).
Delivers(w) ==
  /\ w.cursor # <<>>
  /\ op.kind = "restore" => FromJsonOk(Head(w.cursor))

\* The bulk insert of batch by task w, with one of its outcomes: the target
\* collection named as the task's collection takes what the call inserted,
\* no other collection changes, and ok tells whether the call returned Ok.
InsertOutcome(w, batch, ok) ==
  \E driverFault \in BOOLEAN :
    LET res == InsertMany(DocsOf(target, w.coll), batch, driverFault)
    IN  /\ target' = WithCollection(target, w.coll, res.docs)
        /\ ok = res.ok

\* The batching both loops follow, as a function of the document delivered
\* and of the outcome of the call: a turn that delivers a document counts
\* and pushes it, and inserts and clears a buffer of BatchSize; the end of
\* the input leads behind the loop, where what is left is inserted once and
\* decides between Ok(count) and Err.
SameBatching(w, v) ==
  /\ (w.pc = "stream" /\ v.pc = "stream" /\ v # w /\ Delivers(w)) =>
       LET pushed == Append(w.buffer, Delivered(w))
       IN  /\ v.cursor = Tail(w.cursor)
           /\ v.count = w.count + 1
           /\ v.coll = w.coll
           /\ IF Len(pushed) >= BatchSize
              THEN /\ v.calls = Append(w.calls, Len(pushed))
                   /\ v.buffer = <<>>
                   /\ \E ok \in BOOLEAN :
                        /\ InsertOutcome(w, pushed, ok)
                        /\ v.faulted = (w.faulted \/ ~ok)
              ELSE /\ v.calls = w.calls
                   /\ v.buffer = pushed
                   /\ v.faulted = w.faulted
                   /\ target' = target
  /\ (w.pc = "stream" /\ v.pc = "final") =>
       /\ w.cursor = <<>>
       /\ v = [w EXCEPT !.pc = "final"]
       /\ target' = target
  /\ (w.pc = "final" /\ v.pc \in {"done", "failed"}) =>
       /\ v.count = w.count
       /\ IF w.buffer = <<>>
          THEN /\ v.pc = "done"
               /\ v.calls = w.calls
               /\ target' = target
          ELSE /\ v.calls = Append(w.calls, Len(w.buffer))
               /\ \E ok \in BOOLEAN :
                    /\ InsertOutcome(w, w.buffer, ok)
                    /\ v.pc = (IF ok THEN "done" ELSE "failed")
  /\ v.pc = "done" => w.pc \in {"final", "done"}

\* C28: copy batches as restore does.  Every step of a copy task and every
\* step of a restore task on a line that parses follows the same batching,
\* a function of the buffer, the document delivered and the outcome of the
\* bulk insert alone: for the same documents delivered and the same outcomes
\* the two issue the same calls with the same batches to the collection of
\* the same name and end with the same result and count; without a failure
\* the calls of both are the ceil(count / BatchSize) calls of C3.
C28_CopyBatchesAsRestore ==
  [][op.kind \in {"restore", "copy"} /\ op'.kind = op.kind
       /\ Len(workers') = Len(workers) =>
       \A i \in 1..Len(workers) :
         /\ SameBatching(workers[i], workers'[i])
         /\ (workers'[i].pc = "done" /\ ~workers'[i].faulted) =>
              workers'[i].calls = ExpectedCalls(workers'[i].count)]_vars

\* C28 witness: a copy task and, in another run, a restore task of more than
\* BatchSize documents ended done; here the copy task, with its calls.
C28_Witness ==
  /\ op.kind = "copy"
  /\ \E i \in 1..Len(workers) :
       /\ workers[i].pc = "done"
       /\ workers[i].count > BatchSize
       /\ Len(workers[i].calls) >= 2
       /\ workers[i].calls = ExpectedCalls(workers[i].count)


\* ---------------------------------------------------------------------- C29

\* The batch task i hands to the bulk insert in this step, or <<>> when the
\* step issues none.
IssuedBatch(i) ==
  LET w == workers[i]
      v == workers'[i]
  IN  IF Len(v.calls) = Len(w.calls) THEN <<>>
      ELSE IF w.pc = "stream" THEN Append(w.buffer, Delivered(w))
      ELSE w.buffer

\* The bulk insert task i issues in this step reaches the target (no fault
\* was injected): the collection keeps what it held, every document of the
\* batch whose _id the collection did not hold is in it afterwards, however
\* many others of the batch were rejected, and a rejection is reported as
\* the error of the call.
UnorderedStep(i) ==
  LET w == workers[i]
      v == workers'[i]
      batch == IssuedBatch(i)
      existing == DocsOf(target, w.coll)
      after == DocsOf(target', w.coll)
      rejected == {k \in 1..Len(batch) : \E e \in existing : e.id = batch[k].id}
  IN  (batch # <<>> /\ faultsLeft' = faultsLeft) =>
        /\ existing \subseteq after
        /\ \A k \in 1..Len(batch) : k \notin rejected => batch[k] \in after
        /\ \A k \in rejected : batch[k] \in after => batch[k] \in existing
        /\ rejected # {} => v.faulted

\* C29: every bulk insert of restore and copy is unordered.  When the target
\* rejects a document of a batch, for an _id it already holds, every other
\* document of the batch is still inserted, whether it comes before or after
\* the rejected one in the batch.
C29_UnorderedInsert ==
  [][op.kind \in {"restore", "copy"} /\ op'.kind = op.kind
       /\ Len(workers') = Len(workers) =>
       \A i \in 1..Len(workers) : UnorderedStep(i)]_vars

\* C29 witness: the restore of A.gz into a target that holds the _id of its
\* first document: the first call is rejected for that document, the target
\* keeps its own, and the document after it in the batch is inserted.
C29_Witness ==
  /\ op.kind = "restore"
  /\ target0 = TargetOld
  /\ \E i \in 1..Len(workers) :
       /\ workers[i].coll = CollA
       /\ workers[i].faulted
       /\ workers[i].calls # <<>>
       /\ workers[i].calls[1] = BatchSize
       /\ Doc(1, "int32", 99) \in DocsOf(target, CollA)
       /\ FromJson(JsonLine(2, -7)) \in DocsOf(target, CollA)


\* ---------------------------------------------------------------------- C30

\* Where the layout puts the file of collection c for a run with dated
\* folder dated.
LayoutPath(dated, c) ==
  IF c = StatsName THEN BackupFolder \o <<StatsName \o DotGz>>
  ELSE dated \o <<c \o DotGz>>

\* The positions of a backup task behind the creation of its file.
Created == {"find", "stream", "flush", "shutdown", "done"}

SnapshotLayout ==
  op.kind = "backup" =>
    /\ (op.phase \in {"spawned", "joined"} \/ op.result = "ok") =>
         /\ op.folder = BackupFolder \o <<FormatTime(Times[clock])>>
         /\ op.folder \in DatedDirs
         /\ \A c \in DOMAIN source :
              Cardinality({i \in 1..Len(workers) : workers[i].coll = c}) = 1
    /\ \A i \in 1..Len(workers) :
         /\ workers[i].coll \in DOMAIN source
         /\ workers[i].path = LayoutPath(op.folder, workers[i].coll)
         /\ workers[i].pc \in Created =>
              /\ LayoutPath(op.folder, workers[i].coll) \in DOMAIN files
              /\ \A c \in DOMAIN source :
                   c # workers[i].coll =>
                     LayoutPath(op.folder, c) # LayoutPath(op.folder, workers[i].coll)
    /\ \A p \in Inside(op.folder) :
         (p \in DOMAIN files /\ p \notin DOMAIN OldFiles) =>
           \E i \in 1..Len(workers) :
             workers[i].coll # StatsName /\ p = workers[i].path
    /\ \A d \in DatedDirs : (d \o <<StatsName \o DotGz>>) \notin DOMAIN files

\* C30: snapshot layout after backup.  A backup that got past the creation
\* of its folder has one dated folder, named after the instant of the run,
\* and adds no other folder; every collection listed has one task, whose
\* file, once created, is <dated>/<collection>.gz for a collection other
\* than Stats, empty collections included, and <root>/Stats.gz for Stats;
\* the run puts nothing else into the dated folder, and no dated folder
\* holds a file written for Stats.
C30_SnapshotLayout ==
  [][/\ SnapshotLayout
     /\ SnapshotLayout'
     /\ op'.kind = "backup" =>
          /\ dirs \subseteq dirs'
          /\ dirs' \subseteq dirs \cup {op'.folder}
          /\ op.kind = "backup" => dirs' = dirs]_vars

\* C30 witness: the backup of a database with an empty collection B and
\* Stats, into a new dated folder, returned: the folder holds B.gz, without
\* a line, and nothing else, and Stats.gz is in the backups folder.
C30_Witness ==
  /\ op.kind = "backup"
  /\ op.phase = "returned"
  /\ op.result = "ok"
  /\ source = DbTwo
  /\ op.folder \notin OldDirs
  /\ Inside(op.folder) = {op.folder \o <<GzFileName(CollB)>>}
  /\ files[op.folder \o <<GzFileName(CollB)>>] = File(<<>>, "closed")
  /\ (BackupFolder \o <<GzFileName(StatsName)>>) \in DOMAIN files
  /\ \A i \in 1..Len(workers) : workers[i].pc = "done"


\* ---------------------------------------------------------------------- C31

\* The task of the call that restores collection c.
TaskOf(c) == CHOOSE i \in 1..Len(workers) : workers[i].coll = c

\* What a restore task leaves: how it ended, its count, its bulk inserts,
\* whether an error was reported, and the documents of its collection.
Outcome(i) ==
  [pc |-> workers[i].pc, count |-> workers[i].count,
   calls |-> workers[i].calls, faulted |-> workers[i].faulted,
   docs |-> DocsOf(target, workers[i].coll)]

\* The step of restore task i on an empty line: only the line is consumed.
BlankStep(i) ==
  LET w == workers[i]
      v == workers'[i]
  IN  (/\ w.pc = "stream" /\ w.gz = "closed"
       /\ w.cursor # <<>> /\ Head(w.cursor) = BlankLine) =>
        /\ v = [w EXCEPT !.cursor = Tail(w.cursor)]
        /\ target' = target

\* C31: blank lines are tolerated on read.  The restore of a collection file
\* and the restore of the same file without its empty lines, into
\* collections that held the same documents, end the same way with the same
\* count and the same bulk inserts and leave the same documents; the step on
\* an empty line counts nothing, reports nothing and ends nothing.
C31_BlankLinesTolerated ==
  [][op'.kind = "restore" /\ Len(workers') = Len(workers) =>
       /\ \A i \in 1..Len(workers) : workers'[i] # workers[i] => BlankStep(i)
       /\ (/\ op'.phase = "returned"
           /\ op'.result = "ok"
           /\ DocsOf(target0, CollA) = DocsOf(target0, CollE)) =>
            Outcome(TaskOf(CollA))' = Outcome(TaskOf(CollE))']_vars

\* C31 witness: A.gz with two documents and an empty line, between them or
\* at an end, was restored into an empty database next to the file without
\* the empty line; both tasks ended done and counted two documents.
C31_Witness ==
  /\ op.kind = "restore"
  /\ op.phase = "returned"
  /\ target0 = EmptyDb
  /\ LET lines == files[OldDated \o <<GzFileName(CollA)>>].lines
     IN  /\ Len(lines) = 3
         /\ Len(NoBlank(lines)) = 2
  /\ workers[TaskOf(CollA)].pc = "done"
  /\ workers[TaskOf(CollA)].count = 2
  /\ workers[TaskOf(CollE)].count = 2


\* ---------------------------------------------------------------------- C32

\* Whether s is the beginning of t.
IsPrefix(s, t) == Len(s) <= Len(t) /\ s = SubSeq(t, 1, Len(s))

\* Whether s is the end of t.
IsSuffix(s, t) ==
  Len(s) <= Len(t) /\ s = SubSeq(t, Len(t) - Len(s) + 1, Len(t))

\* The step in which the process is ended during a backup: every task that
\* had created its file and not shut its stream down leaves the file at the
\* path of the layout, not finalized, holding a beginning of what it wrote;
\* nothing is renamed or removed.
KillLeavesPartial ==
  (op.kind = "backup" /\ op.result # "killed" /\ op'.result = "killed") =>
    /\ DOMAIN files' = DOMAIN files
    /\ \A i \in 1..Len(workers) :
         workers[i].pc \in {"find", "stream", "flush", "shutdown"} =>
           LET path == LayoutPath(op.folder, workers[i].coll)
           IN  /\ workers[i].path = path
               /\ path \in DOMAIN files'
               /\ files'[path].gz = "open"
               /\ IsPrefix(files'[path].lines, files[path].lines)

\* A restore without a restore folder after a backup that was ended: it
\* takes the folder of that backup, has a task for every file the backup
\* left there, and the task of a file that was not finalized reads its lines
\* and cannot end done.
RestoreReadsPartial ==
  (/\ op.kind = "restore" /\ op.result # "err"
   /\ prev.kind = "backup" /\ prev.result = "killed") =>
    /\ op.folder = prev.folder
    /\ \A x \in prev.paths :
         (x[2] \in DOMAIN files /\ Parent(x[2]) = prev.folder) =>
           \E i \in 1..Len(workers) :
             /\ workers[i].coll = x[1]
             /\ workers[i].path = x[2]
             /\ workers[i].pc = "stream" =>
                  IsSuffix(workers[i].cursor, files[x[2]].lines)
             /\ (files[x[2]].gz = "open" => workers[i].pc # "done")

\* C32: no atomic write.  A backup task writes at the final path of its
\* file; when the process is ended after the file was created and before
\* its compression stream was shut down, the file is there at that path,
\* partly written and not finalized, and a later restore that resolves the
\* newest dated folder takes that folder and reads that file.
C32_NoAtomicWrite ==
  [][KillLeavesPartial /\ RestoreReadsPartial /\ RestoreReadsPartial']_vars

\* C32 witness: a backup was ended while X.gz held some of its lines; the
\* restore after it read them from the file, which is not finalized,
\* inserted a batch of them and its task ended with an error.
C32_Witness ==
  /\ op.kind = "restore"
  /\ op.phase = "returned"
  /\ prev.kind = "backup"
  /\ prev.result = "killed"
  /\ \E i \in 1..Len(workers) :
       /\ workers[i].coll = CollX
       /\ Parent(workers[i].path) = prev.folder
       /\ files[workers[i].path].gz = "open"
       /\ Len(files[workers[i].path].lines) >= 2
       /\ Len(files[workers[i].path].lines) < Cardinality(source[CollX])
       /\ workers[i].pc = "failed"
       /\ workers[i].count = Len(files[workers[i].path].lines)
       /\ DocsOf(target, CollX) # {}


\* ---------------------------------------------------------------------- C33

\* The count of backup task w is the number of documents its cursor has
\* delivered, and the lines of its file are never more.
CountsDelivered(w) ==
  /\ w.pc = "stream" => w.count = Cardinality(source[w.coll]) - Len(w.cursor)
  /\ w.pc \in {"flush", "shutdown", "done"} =>
       w.count = Cardinality(source[w.coll])
  /\ (w.pc \in {"stream", "flush", "shutdown", "done"}
        /\ w.path \in DOMAIN files) =>
       /\ Len(files[w.path].lines) <= w.count
       /\ (w.pc # "stream" /\ ~w.faulted) =>
            Len(files[w.path].lines) = w.count

\* A turn of the loop of backup task i that takes a document counts it,
\* whether its line is written or not.
CountsEveryTurn(i) ==
  LET w == workers[i]
      v == workers'[i]
  IN  (w.pc = "stream" /\ v.pc = "stream" /\ v # w) =>
        /\ v.cursor = Tail(w.cursor)
        /\ v.count = w.count + 1

\* C33: export count.  The count a backup task ends done with is the number
\* of documents the cursor delivered: a document that does not serialize
\* and a document whose line could not be written are counted like the
\* others, so the count can be greater than the number of lines of the file
\* and is never smaller.
C33_ExportCount ==
  [][op.kind = "backup" /\ op'.kind = "backup"
       /\ Len(workers') = Len(workers) =>
       \A i \in 1..Len(workers) :
         /\ CountsEveryTurn(i)
         /\ CountsDelivered(workers[i])
         /\ CountsDelivered(workers[i])']_vars

\* C33 witness: a backup task ended done with a count greater than the
\* number of lines of its finalized file.
C33_Witness ==
  /\ op.kind = "backup"
  /\ op.phase = "returned"
  /\ \E i \in 1..Len(workers) :
       /\ workers[i].pc = "done"
       /\ files[workers[i].path].gz = "closed"
       /\ workers[i].count = Cardinality(source[workers[i].coll])
       /\ workers[i].count > Len(files[workers[i].path].lines)


\* ---------------------------------------------------------------------- C34

\* The documents the input of restore or copy task w holds for it.
Deliverable(w) ==
  IF op.kind = "restore" THEN Cardinality(ParsedLines(files[w.path]))
  ELSE Cardinality(source[w.coll])

\* The documents of the collection of task w that the call added.
Inserted(w) == DocsOf(target, w.coll) \ DocsOf(target0, w.coll)

\* A step of restore or copy task i: the insert of a full batch inside the
\* loop never ends the task, failed or not, and its documents are counted;
\* the task ends failed from the loop only without an insert (the read
\* failed), and from behind the loop only with the insert of the rest.
MidStreamLogged(i) ==
  LET w == workers[i]
      v == workers'[i]
  IN  /\ (w.pc = "stream" /\ Len(v.calls) > Len(w.calls)) =>
           /\ v.pc = "stream"
           /\ v.count = w.count + 1
           /\ v.cursor = Tail(w.cursor)
      /\ (w.pc = "stream" /\ v.pc = "failed") => v.calls = w.calls
      /\ (w.pc = "final" /\ v.pc = "failed") =>
           /\ w.buffer # <<>>
           /\ v.calls = Append(w.calls, Len(w.buffer))
      /\ (w.pc \notin Terminal /\ v.pc = "done") =>
           /\ w.pc = "final"
           /\ v.count = Deliverable(w)

\* C34: outcome against inserted documents in restore and copy.  A failed
\* insert of a full batch inside the loop is only logged: the task goes on
\* with the next document and can end done, with a count that includes the
\* documents of the failed batch; the task ends failed only when the read of
\* its file or cursor fails or when the insert of the rest behind the loop
\* fails.  A task that ends done counted every document its input held,
\* inserted or not.
C34_DoneDespiteFailedBatch ==
  [][op.kind \in {"restore", "copy"} /\ op'.kind = op.kind
       /\ Len(workers') = Len(workers) =>
       \A i \in 1..Len(workers) :
         /\ MidStreamLogged(i)
         /\ workers'[i].pc = "done" =>
              workers'[i].count = Deliverable(workers[i])]_vars

\* C34 witness: a task of the call ended done after the insert of a full
\* batch failed; its count is greater than the number of documents the call
\* added to its collection.
C34_Witness ==
  /\ op.kind \in {"restore", "copy"}
  /\ op.phase = "returned"
  /\ op.result = "ok"
  /\ \E i \in 1..Len(workers) :
       /\ workers[i].pc = "done"
       /\ workers[i].faulted
       /\ workers[i].count = Deliverable(workers[i])
       /\ Cardinality(Inserted(workers[i])) < workers[i].count
       /\ \A j \in 1..Len(workers) : j # i => workers[j].coll # workers[i].coll


\* ---------------------------------------------------------------------- C35

\* A step of backup task i: the task reaches the flush only from the loop
\* with its cursor exhausted and the shutdown only from the flush; a failed
\* query or read ends it there, with its file as it was.
FlushOnlyWhenExhausted(i) ==
  LET w == workers[i]
      v == workers'[i]
  IN  /\ (w.pc # "flush" /\ v.pc = "flush") =>
           w.pc = "stream" /\ w.cursor = <<>>
      /\ (w.pc # "shutdown" /\ v.pc = "shutdown") => w.pc = "flush"
      /\ (w.pc \in {"find", "stream"} /\ v.pc = "failed") =>
           /\ files' = files
           /\ w.path \in DOMAIN files
           /\ files[w.path].gz = "open"
      /\ (w.path \in DOMAIN files /\ w.path \in DOMAIN files'
            /\ files[w.path].gz = "open" /\ files'[w.path].gz = "closed") =>
           w.pc = "shutdown" /\ v.pc = "done"

\* C35: a backup task whose query or cursor read fails ends failed without
\* flushing or shutting down its writer: both happen only once the cursor is
\* exhausted.  The file of a failed task, when it exists, is at its final
\* path and its compressed stream was never finalized.
C35_FailedExportNotFinalized ==
  /\ [][op.kind = "backup" /\ op'.kind = "backup"
          /\ Len(workers') = Len(workers) =>
          \A i \in 1..Len(workers) : FlushOnlyWhenExhausted(i)]_vars
  /\ [](op.kind = "backup" =>
          \A i \in 1..Len(workers) :
            (workers[i].pc = "failed" /\ workers[i].path \in DOMAIN files) =>
              /\ files[workers[i].path].gz = "open"
              /\ workers[i].path = LayoutPath(op.folder, workers[i].coll))

\* C35 witness: the call has returned; the read of a task failed after it had
\* written a line, and its file is at the final path, not finalized.
C35_Witness ==
  /\ op.kind = "backup"
  /\ op.phase = "returned"
  /\ \E i \in 1..Len(workers) :
       /\ workers[i].pc = "failed"
       /\ workers[i].count > 0
       /\ workers[i].path \in DOMAIN files
       /\ files[workers[i].path].gz = "open"
       /\ files[workers[i].path].lines # <<>>


\* ---------------------------------------------------------------------- C36

StatsPath == BackupFolder \o <<GzFileName(StatsName)>>

\* A complete Stats.gz: the file exists and its stream was finalized.
CompleteStats(fs) == StatsPath \in DOMAIN fs /\ fs[StatsPath].gz = "closed"

\* The positions of a backup task between the removal of its file and the
\* end of the shutdown of its writer.
Replacing == {"create", "find", "stream", "flush", "shutdown"}

\* A step of the Stats task i of a backup: the removal comes before the
\* file is created and the cursor opened and leaves no Stats.gz; a task that
\* fails, or is dropped with the process, inside the window leaves no
\* complete Stats.gz; a complete one is back only with the shutdown.
ReplacesDestructively(i) ==
  LET w == workers[i]
      v == workers'[i]
  IN  /\ (w.pc = "remove" /\ v.pc = "create") => StatsPath \notin DOMAIN files'
      /\ (w.pc # "find" /\ v.pc = "find") => w.pc = "create"
      /\ (w.pc \in Replacing /\ v.pc \in {"failed", "killed", "panicked"}) =>
           ~CompleteStats(files')
      /\ (~CompleteStats(files) /\ CompleteStats(files')) =>
           w.pc = "shutdown" /\ v.pc = "done"

\* C36: the replacement of Stats.gz is destructive before it is complete.
\* The Stats task removes <root>/Stats.gz before it opens its cursor; from
\* then until its shutdown succeeds there is no complete Stats.gz; when the
\* task fails or the process ends in between, the content of the previous
\* Stats.gz is lost.
C36_StatsReplacedDestructively ==
  /\ [][op.kind = "backup" /\ op'.kind = "backup"
          /\ Len(workers') = Len(workers) =>
          \A i \in 1..Len(workers) :
            workers[i].coll = StatsName => ReplacesDestructively(i)]_vars
  /\ [](op.kind = "backup" =>
          \A i \in 1..Len(workers) :
            (workers[i].coll = StatsName
               /\ workers[i].pc \in Replacing \cup {"failed"}) =>
              ~CompleteStats(files))

\* C36 witness: the disk held a complete Stats.gz with a line; the process
\* ended while the Stats task was replacing it and what is left is a
\* Stats.gz that is not complete.
C36_Witness ==
  /\ CompleteStats(OldFiles)
  /\ OldFiles[StatsPath].lines # <<>>
  /\ op.kind = "backup"
  /\ op.result = "killed"
  /\ \E i \in 1..Len(workers) :
       /\ workers[i].coll = StatsName
       /\ workers[i].pc = "killed"
       /\ workers[i].path = StatsPath
  /\ StatsPath \in DOMAIN files
  /\ files[StatsPath].gz = "open"


\* ---------------------------------------------------------------------- C39

\* The step leaves every file directly inside folder d as it was: none is
\* created, removed or written.
Untouched(d) ==
  \A p \in (DOMAIN files) \cup (DOMAIN files') :
    (Len(p) = Len(d) + 1 /\ Parent(p) = d) =>
      /\ p \in DOMAIN files
      /\ p \in DOMAIN files'
      /\ files'[p] = files[p]

\* C39: what backup and copy leave alone.  No step of a backup or a copy,
\* from the moment the call has its source database to its return, changes
\* a collection of the source.  No step of a backup, its start included,
\* creates, removes or writes a file in a dated folder other than its own:
\* a backup whose timestamp differs from every existing dated folder leaves
\* the files of all of them as they were.
C39_SourceAndOldSnapshotsKept ==
  [][/\ (op'.kind \in {"backup", "copy"} /\ op.kind = op'.kind
           /\ callsLeft' = callsLeft) => source' = source
     /\ op'.kind = "backup" =>
          \A d \in DatedDirs : d # op'.folder => Untouched(d)]_vars

\* C39 witness: a backup of the database with collection A and Stats, at a
\* timestamp different from the dated folder the disk held, returned: its
\* folder is new and holds A.gz, the source is as it was passed, and the
\* older dated folder holds what it held.
C39_Witness ==
  /\ op.kind = "backup"
  /\ op.phase = "returned"
  /\ op.result = "ok"
  /\ source = DbOne
  /\ op.folder \notin OldDirs
  /\ OldDated \in DatedDirs
  /\ (op.folder \o <<GzFileName(CollA)>>) \in DOMAIN files
  /\ files[op.folder \o <<GzFileName(CollA)>>].lines # <<>>
  /\ \A p \in DOMAIN OldFiles :
       Parent(p) = OldDated => p \in DOMAIN files /\ files[p] = OldFiles[p]
  /\ \A p \in DOMAIN files : Parent(p) = OldDated => p \in DOMAIN OldFiles


\* ---------------------------------------------------------------------- C40

\* The lock of each method is held exactly by an invocation of the method
\* that is behind its try_lock() and has not returned.
HeldWhileRunning ==
  \A p \in RequestIds :
    /\ backup_database_lock = p =>
         requests[p].kind = BackupCoreDatabase /\ requests[p].pc \in Holding
    /\ clear_repo_cache_lock = p =>
         requests[p].kind = ClearRepoCache /\ requests[p].pc \in Holding
    /\ requests[p].pc \in Holding => LockOf(requests[p].kind) = p

\* A step in which invocation p returns after it took the lock: whatever it
\* returns, the lock of its method is free afterwards.
ReleasedOnReturn(p) ==
  (requests[p].pc \in Holding /\ requests'[p].pc = "returned") =>
    /\ requests'[p].result \in {"ok", "failed"}
    /\ IF requests[p].kind = BackupCoreDatabase
       THEN backup_database_lock' = 0
       ELSE clear_repo_cache_lock' = 0

\* C40: the maintenance lock is always released.  On every path out of
\* BackupCoreDatabase and ClearRepoCache behind the acquisition (success, a
\* failed update write, a failed directory read) the lock is free when
\* resolve() has returned; a held lock always becomes free again, so a later
\* invocation can acquire it and none is locked out for good.
C40_LockAlwaysReleased ==
  /\ []HeldWhileRunning
  /\ [][\A p \in RequestIds : ReleasedOnReturn(p)]_vars
  /\ (backup_database_lock # 0) ~> (backup_database_lock = 0)
  /\ (clear_repo_cache_lock # 0) ~> (clear_repo_cache_lock = 0)

\* C40 witness: a backup returned an error after it had taken the lock, and
\* a later backup holds the lock.
C40_Witness ==
  \E p, q \in RequestIds :
    /\ requests[p].kind = BackupCoreDatabase
    /\ requests[p].pc = "returned"
    /\ requests[p].result = "failed"
    /\ requests[q].kind = BackupCoreDatabase
    /\ requests[q].pc = "command"
    /\ backup_database_lock = q
    /\ clear_repo_cache_lock = 0


\* ---------------------------------------------------------------------- C38

\* The collection restore derives from the file backup writes for c.
Derived(c) == StripGzSuffix(GzFileName(c))

\* The tasks of a restore that follows a backup of the source: one per
\* collection of the source, each reading the file the backup wrote for the
\* collection it restores into.
SameNamed ==
  (op.kind = "restore" /\ op.phase # "returned" /\ prev.kind = "backup"
     /\ prev.result = "ok") =>
    {<<workers[i].coll, workers[i].path>> : i \in 1..Len(workers)}
      = {<<c, LayoutPath(op.folder, c)>> : c \in DOMAIN source}

\* The ids of the documents a database holds in collection c.
IdsOf(db, c) == {d.id : d \in DocsOf(db, c)}

\* C38: the file-name round trip.  For every collection name c other than
\* Stats the name restore derives from the file name c followed by ".gz",
\* stripping the suffix once, is c; Stats.gz in the root is restored into
\* Stats; so after a backup every document is restored into the collection
\* of the name it was backed up from.
C38_NameRoundTrip ==
  /\ \A c \in DOMAIN source :
       c # StatsName => HasGzSuffix(GzFileName(c)) /\ Derived(c) = c
  /\ SameNamed
  /\ (op.kind = "restore" /\ prev.kind = "backup" /\ prev.result = "ok") =>
       \A c \in DOMAIN target : IdsOf(target, c) \subseteq IdsOf(source, c)
  /\ (op.kind = "restore" /\ op.phase = "returned" /\ op.result = "ok"
        /\ prev.kind = "backup" /\ prev.result = "ok") =>
       \A c \in DOMAIN source : IdsOf(target, c) = IdsOf(source, c)

\* C38 witness: the collection named ".gz" was backed up into ".gz.gz" and
\* the restore of the snapshot has returned: the new database holds its
\* document in ".gz" and the one of Stats in Stats.
C38_Witness ==
  /\ op.kind = "restore"
  /\ op.phase = "returned"
  /\ op.result = "ok"
  /\ prev.kind = "backup"
  /\ GzSuffix \in DOMAIN source
  /\ (op.folder \o <<GzSuffix \o GzSuffix>>) \in DOMAIN files
  /\ IdsOf(target, GzSuffix) = {1}
  /\ IdsOf(target, StatsName) = {10}
  /\ DOMAIN target = DOMAIN source


\* ---------------------------------------------------------------------- C37

\* Two calls of backup are under way.
Overlap ==
  /\ op.kind = "backup"
  /\ other.op.kind = "backup"
  /\ op.phase \in {"spawned", "joined"}
  /\ other.op.phase \in {"spawned", "joined"}

\* The start of a backup: the folder is named by the instant alone, and a
\* folder that is already there is no error.
StartsInFolderOfInstant ==
  (op'.kind = "backup" /\ callsLeft' = callsLeft - 1) =>
    /\ op'.folder = BackupFolder \o <<FormatTime(Times[clock'])>>
    /\ op'.phase = "spawned"
    /\ dirs' = dirs \cup {op'.folder}
    /\ (other.op.kind = "backup" /\ op'.folder = other.op.folder) =>
         \A i \in 1..Len(workers') : \A j \in 1..Len(other.workers) :
           workers'[i].coll = other.workers[j].coll =>
             workers'[i].path = other.workers[j].path

\* C37: concurrent backups collide.  The dated folder of a run is named by
\* the second it starts in, and an existing folder is no error, so two runs
\* of the same second write the same folder; two runs under way, whatever
\* their seconds, have the same <root>/Stats.gz; and backup takes no lock: a
\* run can start while another is under way, so their tasks remove, create
\* and write the same file at the same time.
C37_ConcurrentBackupsCollide ==
  /\ [][StartsInFolderOfInstant]_vars
  /\ [](Overlap =>
          \A i \in 1..Len(workers) : \A j \in 1..Len(other.workers) :
            (workers[i].coll = StatsName /\ other.workers[j].coll = StatsName) =>
              /\ workers[i].path = BackupFolder \o <<GzFileName(StatsName)>>
              /\ other.workers[j].path = workers[i].path)
  /\ []((Idle /\ other.op.phase \in {"spawned", "joined"}) => ENABLED BackupRun)

\* C37 witness: two runs of the same second are under way in the same
\* folder; the task of one created B.gz and the task of the other removed
\* it and created its own while the first was writing; and the Stats task
\* of one has Stats.gz open while the Stats task of the other is about to
\* remove it.
C37_Witness ==
  /\ Overlap
  /\ op.folder = other.op.folder
  /\ \E i \in 1..Len(workers), j \in 1..Len(other.workers) :
       /\ workers[i].coll = CollB
       /\ other.workers[j].coll = CollB
       /\ workers[i].path = other.workers[j].path
       /\ workers[i].handle = "lost"
       /\ other.workers[j].handle = "own"
  /\ \E i \in 1..Len(workers), j \in 1..Len(other.workers) :
       /\ workers[i].coll = StatsName
       /\ other.workers[j].coll = StatsName
       /\ workers[i].path = other.workers[j].path
       /\ workers[i].pc = "stream"
       /\ workers[i].handle = "own"
       /\ workers[i].sent > 0
       /\ other.workers[j].pc = "remove"

====
